---- MODULE Spec2Model ----
(***************************************************************************)
(* Model of the queue-centric traversal engine of music_links:             *)
(*   services/traversal_manager.py  SmartTraversalQueue,                   *)
(*                                  QueueBasedTraversalManager             *)
(*   services/artist_processor.py   ArtistProcessor (as called by the      *)
(*                                  manager)                               *)
(*                                                                         *)
(* Specifications, all over the same variables:                            *)
(*   SpecQueue      a SmartTraversalQueue driven directly through add and  *)
(*                  get_next with arbitrary items;                         *)
(*   SpecTerminate  should_terminate applied to arbitrary configurations,  *)
(*                  statistics and queues;                                 *)
(*   Spec           one QueueBasedTraversalManager running traverse(),     *)
(*                  with stop() interleaved and the catalog, the database  *)
(*                  and the clock as a nondeterministic environment;       *)
(*   SpecFanOut     traverse() in the fan-out scenario of the tests: no    *)
(*                  limit but max_artists, every artist resolves and       *)
(*                  exposes FanOut collaborators never seen before.        *)
(*                                                                         *)
(* Conventions.  Python None is the value None (-1); a Python value is     *)
(* "truthy" when it is neither None nor 0, which is what `if x and ...`    *)
(* tests.  Artist ids (strings in the code) are 1..NumIds.  Priorities     *)
(* 1.0 and 0.5 are scaled by two.  time.time() is a clock in whole seconds *)
(* that never runs backwards and may return the same value twice;          *)
(* time_limit_seconds, a float, is held in half seconds, so that a limit   *)
(* of 0.5 s lies between two readings of the clock.                        *)
(***************************************************************************)
EXTENDS Integers, Sequences, FiniteSets, TLC

\* ------------------------------------------------------------------------
\* Bounds of the model
\* ------------------------------------------------------------------------
NumIds == 4
MaxClock == 1
MaxArtists == 3
MaxQueueSize == 2
MaxDepth == 1
MaxTimeLimit == 1
MaxErrorThreshold == 2
MaxPages == 1
MaxAddCalls == 3
MaxItemDepth == 1
NumReleases == 1
NumArtists == 2
MaxReleasePages == 2
MaxResolveCalls == 2
MaxAttempts == 3
MaxInitialBackoff == 2
MaxMultiplier == 2
MaxBackoff == 2
MaxInterval == 2
MaxCallTime == 1
MaxRequests == 2
NumTasks == 3
MaxGateTime == 6
MaxPasses == 4
MaxFrontierPages == 2
MaxConcurrent == 2
MaxBulkDepth == 2
NumDbArtists == 2
NumDbReleases == 2
MaxMainCredits == 2
MaxOtherCredits == 1

\* ------------------------------------------------------------------------
\* Values
\* ------------------------------------------------------------------------
None == -1

Ids == 1..NumIds

Truthy(x) == x # None /\ x # 0

\* ArtistQueueItem priorities, scaled by two: 1.0 for the seed, 0.5 default
SeedPriority == 2
DefaultPriority == 1

\* TraversalConfig.log_progress_interval default
log_progress_interval == 10

QueueStrategy == {"bfs", "dfs", "priority"}

MAX_ARTISTS_REACHED == "Maximum number of artists reached"
QUEUE_EMPTY == "Queue is empty - no more artists to process"
TIME_LIMIT_EXCEEDED == "Time limit exceeded"
ERROR_THRESHOLD_EXCEEDED == "Error threshold exceeded"
MANUAL_STOP == "Manual stop requested"

TerminationReason ==
  {MAX_ARTISTS_REACHED, QUEUE_EMPTY, TIME_LIMIT_EXCEEDED,
   ERROR_THRESHOLD_EXCEEDED, MANUAL_STOP}

\* the second component of should_terminate's (False, None)
NoReason == "None"

ArtistQueueItem(id, depth, priority, parent, t) ==
  [discogs_id |-> id, depth |-> depth, priority |-> priority,
   parent_id |-> parent, discovery_time |-> t]

NoItem == ArtistQueueItem(None, 0, 0, None, 0)

VARIABLES
  pc,              \* position of the caller: in traverse(), or "api" for SpecQueue
  config,          \* TraversalConfig
  queue,           \* SmartTraversalQueue
  statistics,      \* TraversalStatistics
  stop_requested,  \* QueueBasedTraversalManager.stop_requested
  now,             \* last value returned by time.time()
  queue_item,      \* the item popped by the current iteration
  proc,            \* locals of _process_artist_from_queue / _process_releases_with_queue
  last,            \* SpecQueue: the last call made on the queue and what it returned
  add_calls,       \* SpecQueue: number of add() calls made
  popped,          \* SpecQueue: ids returned by get_next(), in order
  hist,            \* observations of the run used to state the properties
  catalog,         \* the releases of the upstream catalog, by release id
  release_cache,   \* ReleaseProcessor._release_cache
  extracted,       \* the last call of extract_artists_from_release and its result
  artist_processor, \* ArtistProcessor: session cache, database and the calls made
  api_client,      \* DiscogsAPIClient, its RateLimiter and the requests made
  rate_limiter,    \* traverser_optimized.RateLimiter, its lock and the tasks calling it
  traverser,       \* traverser.Traverser: checked, artists, count and what it did
  async_traverser,\* traverser_optimized.AsyncTraverser: checked, artists, count and what it resolved
  bulk_traverser,\* traverser_bulk.BulkTraverser: queue, processed, pending data, stats and what it fetched
  async_connector,\* traverser_optimized.AsyncDiscoConnector: the call of _execute_with_retry in progress
  database \* crud: the artist, release and artist_release tables and the calls of create_with_releases

\* the state of the traversal manager, its queue and its release processor
traversal == <<pc, config, queue, statistics, stop_requested, now, queue_item,
               proc, last, add_calls, popped, hist, catalog, release_cache,
               extracted>>

\* the state of the services the traversal manager calls
services == <<artist_processor, api_client, rate_limiter>>

\* the state of the other traversal variants
variants == <<traverser, async_traverser, bulk_traverser, async_connector, database>>

vars == <<traversal, services, variants>>

\* ------------------------------------------------------------------------
\* SmartTraversalQueue
\* ------------------------------------------------------------------------
SmartTraversalQueue(strategy, max_size) ==
  [strategy |-> strategy, max_size |-> max_size, _queue |-> <<>>,
   seen |-> {}, processed |-> {}, peak_size |-> 0, total_additions |-> 0,
   depth_map |-> [i \in Ids |-> None]]

\* (-priority, discovery_time, item) < (-priority, discovery_time, item) on
\* two heap entries: "lt", "ge", or "raise" when both keys tie and the items
\* differ, because ArtistQueueItem defines == but not <.
HeapLess(x, y) ==
  IF x.priority > y.priority THEN "lt"
  ELSE IF x.priority < y.priority THEN "ge"
  ELSE IF x.discovery_time < y.discovery_time THEN "lt"
  ELSE IF x.discovery_time > y.discovery_time THEN "ge"
  ELSE IF x = y THEN "ge"
  ELSE "raise"

Swap(heap, i, j) == [heap EXCEPT ![i] = heap[j], ![j] = heap[i]]

\* heapq's sift towards the root (positions from 1); stops where a
\* comparison raises, leaving the swaps made so far in place.
RECURSIVE siftdown(_, _, _)
siftdown(heap, startpos, pos) ==
  IF pos <= startpos THEN [heap |-> heap, ok |-> TRUE]
  ELSE LET parentpos == pos \div 2
           c == HeapLess(heap[pos], heap[parentpos])
       IN  IF c = "raise" THEN [heap |-> heap, ok |-> FALSE]
           ELSE IF c = "ge" THEN [heap |-> heap, ok |-> TRUE]
           ELSE siftdown(Swap(heap, pos, parentpos), startpos, parentpos)

\* heapq's sift towards the leaves, followed by siftdown
RECURSIVE siftup(_, _, _)
siftup(heap, startpos, pos) ==
  IF pos <= Len(heap) \div 2
  THEN LET l == 2 * pos
           r == l + 1
       IN  IF r <= Len(heap)
           THEN LET c == HeapLess(heap[l], heap[r])
                    childpos == IF c = "lt" THEN l ELSE r
                IN  IF c = "raise" THEN [heap |-> heap, ok |-> FALSE]
                    ELSE siftup(Swap(heap, childpos, pos), startpos, childpos)
           ELSE siftup(Swap(heap, l, pos), startpos, l)
  ELSE siftdown(heap, startpos, pos)

heappush(heap, item) ==
  LET h == Append(heap, item) IN siftdown(h, 1, Len(h))

\* heap must be non-empty
heappop(heap) ==
  LET n == Len(heap)
      lastelt == heap[n]
      h1 == SubSeq(heap, 1, n - 1)
  IN  IF n = 1 THEN [heap |-> h1, ok |-> TRUE, item |-> lastelt]
      ELSE LET r == siftup([h1 EXCEPT ![1] = lastelt], 1, 1)
           IN  [heap |-> r.heap, ok |-> r.ok, item |-> heap[1]]

\* add(item): ret is "True", "False" or "TypeError" (raised by heappush)
add(q, item) ==
  IF item.discogs_id \in q.seen THEN [q |-> q, ret |-> "False"]
  ELSE IF Truthy(q.max_size) /\ Len(q._queue) >= q.max_size
  THEN [q |-> q, ret |-> "False"]
  ELSE LET pushed == IF q.strategy \in {"bfs", "dfs"}
                     THEN [heap |-> Append(q._queue, item), ok |-> TRUE]
                     ELSE heappush(q._queue, item)
           current_size == Len(pushed.heap)
       IN  IF ~pushed.ok
           THEN [q |-> [q EXCEPT !._queue = pushed.heap], ret |-> "TypeError"]
           ELSE [q |-> [q EXCEPT
                          !._queue = pushed.heap,
                          !.seen = @ \cup {item.discogs_id},
                          !.depth_map[item.discogs_id] = item.depth,
                          !.total_additions = @ + 1,
                          !.peak_size = IF current_size > @ THEN current_size ELSE @],
                 ret |-> "True"]

\* get_next taking the newest item whatever the strategy
get_next_newest(q) ==
  IF Len(q._queue) = 0 THEN [q |-> q, ret |-> "None", item |-> NoItem]
  ELSE LET n == Len(q._queue) IN
       [q |-> [q EXCEPT !._queue = SubSeq(@, 1, n - 1),
                        !.processed = @ \cup {q._queue[n].discogs_id}],
        ret |-> "item", item |-> q._queue[n]]

\* get_next(): ret is "item", "None" or "TypeError" (raised by heappop)
get_next(q) ==
  IF Len(q._queue) = 0 THEN [q |-> q, ret |-> "None", item |-> NoItem]
  ELSE IF q.strategy = "bfs"
  THEN [q |-> [q EXCEPT !._queue = Tail(@),
                        !.processed = @ \cup {Head(q._queue).discogs_id}],
        ret |-> "item", item |-> Head(q._queue)]
  ELSE IF q.strategy = "dfs"
  THEN LET n == Len(q._queue) IN
       [q |-> [q EXCEPT !._queue = SubSeq(@, 1, n - 1),
                        !.processed = @ \cup {q._queue[n].discogs_id}],
        ret |-> "item", item |-> q._queue[n]]
  ELSE LET p == heappop(q._queue) IN
       IF ~p.ok
       THEN [q |-> [q EXCEPT !._queue = p.heap], ret |-> "TypeError", item |-> NoItem]
       ELSE [q |-> [q EXCEPT !._queue = p.heap,
                             !.processed = @ \cup {p.item.discogs_id}],
             ret |-> "item", item |-> p.item]

is_empty(q) == Len(q._queue) = 0

\* TraversalStatistics.elapsed_time when read at clock value t
elapsed_time(stats, t) ==
  (IF stats.end_time # None THEN stats.end_time ELSE t) - stats.start_time

\* should_terminate with `>` for `>=` in the max-artists test
should_terminate_gt(q, cfg, stats, t) ==
  IF stats.artists_processed > cfg.max_artists THEN MAX_ARTISTS_REACHED
  ELSE IF is_empty(q) THEN QUEUE_EMPTY
  ELSE IF Truthy(cfg.time_limit_seconds)
          /\ 2 * elapsed_time(stats, t) > cfg.time_limit_seconds
  THEN TIME_LIMIT_EXCEEDED
  ELSE IF Truthy(cfg.error_threshold) /\ stats.errors >= cfg.error_threshold
  THEN ERROR_THRESHOLD_EXCEEDED
  ELSE NoReason

\* should_terminate reporting an empty queue with the max-artists reason
should_terminate_one_reason(q, cfg, stats, t) ==
  IF stats.artists_processed >= cfg.max_artists \/ is_empty(q)
  THEN MAX_ARTISTS_REACHED
  ELSE IF Truthy(cfg.time_limit_seconds)
          /\ 2 * elapsed_time(stats, t) > cfg.time_limit_seconds
  THEN TIME_LIMIT_EXCEEDED
  ELSE IF Truthy(cfg.error_threshold) /\ stats.errors >= cfg.error_threshold
  THEN ERROR_THRESHOLD_EXCEEDED
  ELSE NoReason

\* should_terminate testing the error threshold before the time limit
should_terminate_swapped(q, cfg, stats, t) ==
  IF stats.artists_processed >= cfg.max_artists THEN MAX_ARTISTS_REACHED
  ELSE IF is_empty(q) THEN QUEUE_EMPTY
  ELSE IF Truthy(cfg.error_threshold) /\ stats.errors >= cfg.error_threshold
  THEN ERROR_THRESHOLD_EXCEEDED
  ELSE IF Truthy(cfg.time_limit_seconds)
          /\ 2 * elapsed_time(stats, t) > cfg.time_limit_seconds
  THEN TIME_LIMIT_EXCEEDED
  ELSE NoReason

\* should_terminate without the error threshold test
should_terminate_no_threshold(q, cfg, stats, t) ==
  IF stats.artists_processed >= cfg.max_artists THEN MAX_ARTISTS_REACHED
  ELSE IF is_empty(q) THEN QUEUE_EMPTY
  ELSE IF Truthy(cfg.time_limit_seconds)
          /\ 2 * elapsed_time(stats, t) > cfg.time_limit_seconds
  THEN TIME_LIMIT_EXCEEDED
  ELSE NoReason

\* should_terminate(config, stats): the reason, or NoReason for (False, None).
\* t is what time.time() returns if elapsed_time is evaluated.
should_terminate(q, cfg, stats, t) ==
  IF stats.artists_processed >= cfg.max_artists THEN MAX_ARTISTS_REACHED
  ELSE IF is_empty(q) THEN QUEUE_EMPTY
  ELSE IF Truthy(cfg.time_limit_seconds)
          /\ 2 * elapsed_time(stats, t) > cfg.time_limit_seconds
  THEN TIME_LIMIT_EXCEEDED
  ELSE IF Truthy(cfg.error_threshold) /\ stats.errors >= cfg.error_threshold
  THEN ERROR_THRESHOLD_EXCEEDED
  ELSE NoReason

Min(a, b) == IF a <= b THEN a ELSE b
Max(a, b) == IF a >= b THEN a ELSE b

can_accept_more(q, cfg, stats) ==
  LET remaining_for_processing ==
        cfg.max_artists - stats.artists_processed - Len(q._queue)
  IN  IF Truthy(q.max_size)
      THEN Max(0, Min(remaining_for_processing, q.max_size - Len(q._queue)))
      ELSE Max(0, remaining_for_processing)


\* ------------------------------------------------------------------------
\* ReleaseProcessor
\* ------------------------------------------------------------------------
ReleaseIds == 1..NumReleases

\* the artists a release can credit, as the API shows them: id and name
CreditedArtists ==
  {[id |-> 1, name |-> "Artist 1"], [id |-> 2, name |-> "Artist 2"],
   [id |-> 3, name |-> "Various"]}

SeqsUpTo(S, n) == UNION {[1..k -> S] : k \in 0..n}

\* a release as extract_artists_from_release reads it (the main release of
\* a master): its primary artists, its extra artists, the extra artists of
\* its tracks and its release-level credits
Releases ==
  [id : ReleaseIds,
   artists : SeqsUpTo(CreditedArtists, MaxMainCredits),
   extraartists : SeqsUpTo(CreditedArtists, MaxOtherCredits),
   tracklist : SeqsUpTo(CreditedArtists, MaxOtherCredits),
   credits : SeqsUpTo(CreditedArtists, MaxOtherCredits)]

ExtractedArtist(discogs_id, name, role) ==
  [discogs_id |-> discogs_id, name |-> name, role |-> role]

\* an artist reference whose attributes cannot be read: hasattr(artist, 'id')
\* or getattr(artist, 'name', ...) raises something other than AttributeError
RaisesOnAccess == -2

\* the references that are not well formed: one without an id attribute and
\* one that raises when read
MalformedReferences ==
  {[id |-> None, name |-> "Artist 1"], [id |-> RaisesOnAccess, name |-> "Artist 2"]}

\* the references one `try: for artist in ...: if hasattr(artist, 'id')` loop
\* appends: those before the first reference that raises, less those
\* without an id
Readable(credited) ==
  LET failing == {i \in 1..Len(credited) : credited[i].id = RaisesOnAccess}
      n == IF failing = {} THEN Len(credited)
           ELSE (CHOOSE i \in failing : \A j \in failing : i <= j) - 1
  IN  SelectSeq(SubSeq(credited, 1, n), LAMBDA a : a.id # None)

WithRole(credited, role) ==
  LET readable == Readable(credited) IN
  [i \in 1..Len(readable) |->
     ExtractedArtist(readable[i].id, readable[i].name, role)]

extract_main_artists(release) == WithRole(release.artists, "main")

extract_extra_artists(release) == WithRole(release.extraartists, "extra")

\* the track-level and the release-level credits are read in one try block
extract_credit_artists(release) ==
  WithRole(release.tracklist \o release.credits, "credit")

\* a Python set of ids built from a list of ids, held as a sequence without
\* repetitions (the order of a set carries no meaning)
RECURSIVE set_of(_)
set_of(ids) ==
  IF ids = <<>> THEN <<>>
  ELSE LET n == Len(ids)
           rest == set_of(SubSeq(ids, 1, n - 1))
       IN  IF \E i \in 1..Len(rest) : rest[i] = ids[n] THEN rest
           ELSE Append(rest, ids[n])

\* the ids of a list of extracted artists, one entry per credit
artist_ids_per_credit(artists) ==
  [i \in 1..Len(artists) |-> artists[i].discogs_id]

\* the elements of a sequence
Range(seq) == {seq[i] : i \in 1..Len(seq)}

\* ProcessedRelease.artist_ids
artist_ids(artists) == set_of([i \in 1..Len(artists) |-> artists[i].discogs_id])

\* a set of ids minus {id}
Minus(ids, id) == SelectSeq(ids, LAMBDA x : x # id)

NoCache == [r \in ReleaseIds |-> [cached |-> FALSE, artists |-> <<>>]]

\* extract_artists_from_release taking the extra artists whatever the flag
extract_artists_always_extras(cache, release, current_artist_id, include_extras, include_credits) ==
  IF cache[release.id].cached
  THEN [cache |-> cache, cached |-> TRUE, errors |-> 0,
        ret |-> Minus(artist_ids(cache[release.id].artists), current_artist_id)]
  ELSE LET extracted_artists ==
             extract_main_artists(release)
             \o extract_extra_artists(release)
             \o (IF include_credits THEN extract_credit_artists(release) ELSE <<>>)
       IN  [cache |-> [cache EXCEPT ![release.id] =
                         [cached |-> TRUE, artists |-> extracted_artists]],
            cached |-> FALSE, errors |-> 0,
            ret |-> Minus(artist_ids(extracted_artists), current_artist_id)]

\* extract_artists_from_release(release, current_artist_id, include_extras,
\* include_credits) with the release cache `cache`: the set returned, the
\* cache after the call and the number added to stats.errors, which no
\* statement that reads an artist reference touches
extract_artists_from_release(cache, release, current_artist_id, include_extras, include_credits) ==
  IF cache[release.id].cached
  THEN [cache |-> cache, cached |-> TRUE, errors |-> 0,
        ret |-> Minus(artist_ids(cache[release.id].artists), current_artist_id)]
  ELSE LET extracted_artists ==
             extract_main_artists(release)
             \o (IF include_extras THEN extract_extra_artists(release) ELSE <<>>)
             \o (IF include_credits THEN extract_credit_artists(release) ELSE <<>>)
       IN  [cache |-> [cache EXCEPT ![release.id] =
                         [cached |-> TRUE, artists |-> extracted_artists]],
            cached |-> FALSE, errors |-> 0,
            ret |-> Minus(artist_ids(extracted_artists), current_artist_id)]

NoCatalog == <<>>

NoExtraction ==
  [op |-> "none", release_id |-> None, current_artist_id |-> None,
   include_extras |-> FALSE, include_credits |-> FALSE, cached |-> FALSE,
   ret |-> <<>>, errors |-> 0]

\* ------------------------------------------------------------------------
\* ArtistProcessor
\* ------------------------------------------------------------------------
ArtistIds == 1..NumArtists

\* what the database and the upstream catalog do during one call of
\* get_or_create_artist: the database lookup answers or raises; the upstream
\* fetch returns an artist, returns nothing or raises; the artist's releases
\* are a plain list (pages = None) or have `pages` pages of which those in
\* `failing` raise when requested; create_with_releases returns the artist
\* or raises
Upstream ==
  {u \in [db_raises : BOOLEAN,
          fetch : {"artist", "none", "raises"},
          pages : {None} \cup (0..MaxReleasePages),
          failing : SUBSET (1..MaxReleasePages),
          create : {"artist", "raises"}] :
     u.failing \subseteq 1..u.pages}

\* the releases of a collection that is not paginated
Unpaged == 0

\* fetch_all_releases reading the first page only
fetch_first_page_only(pages, failing) ==
  IF pages = None
  THEN [requested |-> <<>>, release_list |-> <<Unpaged>>]
  ELSE LET requested == [i \in 1..Min(pages, 1) |-> i]
       IN  [requested |-> requested,
            release_list |-> SelectSeq(requested, LAMBDA n : n \notin failing)]

\* ReleaseProcessor.fetch_all_releases(releases): the pages requested, in
\* order, and the list returned, each release standing for the page it is on
fetch_all_releases(pages, failing) ==
  IF pages = None
  THEN [requested |-> <<>>, release_list |-> <<Unpaged>>]
  ELSE LET requested == [i \in 1..pages |-> i]
       IN  [requested |-> requested,
            release_list |-> SelectSeq(requested, LAMBDA n : n \notin failing)]

\* what a call did outside the processor: the upstream fetch, the page
\* requests and the create call, in the order they were made
NoTrace == <<>>

FetchEvent == [op |-> "fetch", page |-> 0]

PageEvents(requested) ==
  [i \in 1..Len(requested) |-> [op |-> "page", page |-> requested[i]]]

CreateEvent == [op |-> "create", page |-> 0]

\* _fetch_and_create_artist(discogs_id)
fetch_and_create_artist(a, discogs_id, u) ==
  IF u.fetch # "artist"
  THEN [a |-> a, ret |-> "None", trace |-> <<FetchEvent>>, created_with |-> <<>>]
  ELSE LET releases == fetch_all_releases(u.pages, u.failing)
           trace == <<FetchEvent>> \o PageEvents(releases.requested)
                      \o <<CreateEvent>>
       IN  IF u.create = "artist"
           THEN [a |-> [a EXCEPT !.db = @ \cup {discogs_id}],
                 ret |-> "artist", trace |-> trace,
                 created_with |-> releases.release_list]
           ELSE [a |-> a, ret |-> "None", trace |-> trace,
                 created_with |-> <<>>]

\* get_or_create_artist(discogs_id): session cache, database, then upstream
get_or_create_artist(a, discogs_id, u) ==
  IF discogs_id \in a.session_cache
  THEN [a |-> a, ret |-> "artist", trace |-> NoTrace, created_with |-> <<>>]
  ELSE IF u.db_raises
  THEN [a |-> a, ret |-> "raises", trace |-> NoTrace, created_with |-> <<>>]
  ELSE IF discogs_id \in a.db
  THEN [a |-> [a EXCEPT !.session_cache = @ \cup {discogs_id}],
        ret |-> "artist", trace |-> NoTrace, created_with |-> <<>>]
  ELSE LET r == fetch_and_create_artist(a, discogs_id, u)
       IN  IF r.ret = "artist"
           THEN [r EXCEPT !.a.session_cache = @ \cup {discogs_id}]
           ELSE r

\* a new ArtistProcessor on an empty database
NoArtists == [session_cache |-> {}, db |-> {}, calls |-> <<>>]

\* ------------------------------------------------------------------------
\* DiscogsAPIClient, RateLimiter
\* ------------------------------------------------------------------------
\* RetryConfig, in whole seconds
RetryConfig ==
  [max_attempts : 0..MaxAttempts,
   initial_backoff : 1..MaxInitialBackoff,
   backoff_multiplier : 1..MaxMultiplier,
   max_backoff : 1..MaxBackoff]

\* what one attempt on the underlying client does: it returns, or raises
\* HTTPError with status 429, with another 4xx status or with a 5xx status,
\* or raises another exception
Outcomes == {"ok", "429", "4xx", "5xx", "error"}

\* the failures after which the loop sleeps and tries again, with every
\* HTTPError among them
retried_any_http(outcome) == outcome \in {"429", "4xx", "5xx", "error"}

\* the failures after which the loop sleeps and tries again while attempts
\* are left: HTTPError 429 and exceptions that are not HTTPError
retried(outcome) == outcome \in {"429", "error"}

\* a new client: RateLimiter.last_request_time is 0.0 and the clock is
\* far from 0
DiscogsAPIClient(retry_config, interval) ==
  [retry_config |-> retry_config, interval |-> interval,
   last_request_time |-> 0, time |-> MaxInterval,
   request_count |-> 0, error_count |-> 0, requests |-> <<>>]

\* what the client did: passes of the gate, attempts and sleeps, with the
\* time at which each began
Event(op, at, value, outcome) ==
  [op |-> op, at |-> at, value |-> value, outcome |-> outcome]

\* RateLimiter.wait_if_needed(): sleeps until `interval` after the last
\* pass; the event carries the time at which the gate is left
wait_if_needed(c) ==
  LET time_since_last_request == c.time - c.last_request_time
      left == IF time_since_last_request < c.interval
              THEN c.last_request_time + c.interval ELSE c.time
  IN  [c |-> [c EXCEPT !.time = left, !.last_request_time = left],
       event |-> Event("wait", left, left - c.time, "")]

\* the `for attempt in range(max_attempts)` loop from pass `attempt` on:
\* every attempt takes d seconds, outcomes[attempt + 1] is what it does
RECURSIVE attempts(_, _, _, _, _, _)
attempts(c, outcomes, d, attempt, backoff, trace) ==
  IF attempt >= c.retry_config.max_attempts
  THEN [c |-> c, ret |-> "APIError", trace |-> trace]
  ELSE LET outcome == outcomes[attempt + 1]
           called == [c EXCEPT !.time = @ + d]
           tr == Append(trace, Event("call", c.time, attempt, outcome))
           failed == [called EXCEPT !.error_count = @ + 1]
       IN  IF outcome = "ok"
           THEN [c |-> called, ret |-> "result", trace |-> tr]
           ELSE IF ~retried(outcome)
           THEN [c |-> failed, ret |-> "APIError", trace |-> tr]
           ELSE IF attempt < c.retry_config.max_attempts - 1
           THEN attempts([failed EXCEPT !.time = @ + backoff], outcomes, d,
                         attempt + 1,
                         Min(backoff * c.retry_config.backoff_multiplier,
                             c.retry_config.max_backoff),
                         Append(tr, Event("sleep", failed.time, backoff, "")))
           ELSE [c |-> failed,
                 ret |-> IF outcome = "429" THEN "RateLimitError" ELSE "APIError",
                 trace |-> tr]

\* _execute_with_retry(method_name, ...)
execute_with_retry(c, outcomes, d) ==
  LET gate == wait_if_needed(c)
      r == attempts([gate.c EXCEPT !.request_count = @ + 1], outcomes, d, 0,
                    c.retry_config.initial_backoff, <<gate.event>>)
  IN  [r.c EXCEPT !.requests = Append(@, [ret |-> r.ret, trace |-> r.trace])]

\* no client has been built
NoClient ==
  DiscogsAPIClient([max_attempts |-> 0, initial_backoff |-> 1,
                    backoff_multiplier |-> 1, max_backoff |-> 1], 1)

\* ------------------------------------------------------------------------
\* traverser_optimized.RateLimiter, called by the tasks of one event loop
\* ------------------------------------------------------------------------
Tasks == 1..NumTasks

\* a task is outside wait_if_needed, waits for the lock, or holds the lock
\* and sleeps
OutsideGate == [pc |-> "idle", read |-> 0, wake_at |-> 0]

\* RateLimiter(requests_per_minute), min_interval in whole seconds;
\* last_request is 0 and the clock is far from 0
RateLimiter(min_interval) ==
  [min_interval |-> min_interval, last_request |-> 0,
   locked |-> FALSE, waiters |-> <<>>, time |-> MaxInterval,
   task |-> [t \in Tasks |-> OutsideGate], left |-> <<>>]

\* a gate whose lock is never seen held
never_locked(r) == FALSE

\* asyncio.Lock.locked() of self._lock
locked(r) == r.locked

\* line 54 and the end of `async with`: the task stores the time at which
\* it leaves and releases the lock
leave(r, t, read) ==
  [r EXCEPT !.last_request = r.time, !.locked = FALSE,
            !.task[t] = OutsideGate,
            !.left = Append(@, [task |-> t, at |-> r.time, read |-> read])]

\* lines 50-54 run by a task that has just taken the lock, up to its first
\* await
enter(r, t) ==
  LET time_since_last == r.time - r.last_request
      held == [r EXCEPT !.locked = TRUE]
  IN  IF time_since_last < r.min_interval
      THEN [held EXCEPT !.task[t] =
              [pc |-> "sleeping", read |-> r.last_request,
               wake_at |-> r.time + (r.min_interval - time_since_last)]]
      ELSE leave(held, t, r.last_request)

\* no limiter has been built
NoLimiter == RateLimiter(1)

\* no service has been called
IdleServices ==
  /\ artist_processor = NoArtists
  /\ api_client = NoClient
  /\ rate_limiter = NoLimiter

\* ------------------------------------------------------------------------
\* traverser.Traverser, the single-threaded variant
\* ------------------------------------------------------------------------
\* Traverser(discogs_id, client, db, max_artists=max_artists): `resolved`
\* lists the ids whose artist was resolved and whose releases were looked
\* at, `counted` the ids popped and counted by traverse_loop
Traverser(discogs_id, max_artists) ==
  [pc |-> "new", discogs_id |-> discogs_id, max_artists |-> max_artists,
   checked |-> {}, artists |-> {}, count |-> 0,
   resolved |-> <<>>, counted |-> <<>>]

\* no Traverser has been built
NoTraverser == Traverser(None, 0)

\* lines 457-491: the popped id is counted and its artist resolved and
\* expanded
expand_unchecked(tr, artist_id, artist, new_artists) ==
  IF artist
  THEN [tr EXCEPT !.count = @ + 1,
                  !.artists = (@ \ {artist_id})
                                \cup (new_artists \ (tr.checked \cup {artist_id})),
                  !.checked = @ \cup {artist_id},
                  !.counted = Append(@, artist_id),
                  !.resolved = Append(@, artist_id)]
  ELSE [tr EXCEPT !.count = @ + 1,
                  !.artists = @ \ {artist_id},
                  !.counted = Append(@, artist_id)]

\* lines 450-491: artist_id is popped from self.artists; `artist` tells
\* whether get_or_create_artist returns an artist (it returns None or raises
\* otherwise), new_artists is what check_artist_releases returns
traverse_loop_step(tr, artist_id, artist, new_artists) ==
  IF artist_id \in tr.checked
  THEN [tr EXCEPT !.artists = @ \ {artist_id}]
  ELSE expand_unchecked(tr, artist_id, artist, new_artists)

\* ------------------------------------------------------------------------
\* traverser_optimized.AsyncTraverser, the concurrent variant
\* ------------------------------------------------------------------------
\* AsyncTraverser(discogs_id, client, db, max_artists, concurrent_artists):
\* `resolved` holds the ids whose artist _process_artist resolved
AsyncTraverser(discogs_id, max_artists, concurrent_artists) ==
  [pc |-> "new", discogs_id |-> discogs_id, max_artists |-> max_artists,
   concurrent_artists |-> concurrent_artists,
   checked |-> {}, artists |-> {}, count |-> 0, resolved |-> {}]

\* no AsyncTraverser has been built
NoAsyncTraverser == AsyncTraverser(None, 0, 0)

\* what _process_artist returns for one id: None (`artist` is FALSE: not
\* found, or an exception was caught) or the set check_artist_releases
\* returns, which never holds the artist's own id
ProcessResults(artist_id) ==
  {[artist |-> FALSE, new_ids |-> {}]}
    \cup {[artist |-> TRUE, new_ids |-> ids] : ids \in SUBSET (Ids \ {artist_id})}

\* line 371: range(min(concurrent_artists, len(artists), max_artists - count))
batch_size(tr) ==
  LET a == tr.concurrent_artists
      b == Cardinality(tr.artists)
      c == tr.max_artists - tr.count
      ab == IF a <= b THEN a ELSE b
  IN  IF ab <= c THEN ab ELSE c

\* line 388: `if result and not isinstance(result, Exception)`; None and
\* the empty set are both false
counts_result(result) == result.artist /\ result.new_ids # {}

\* lines 369-393: popped_ids are popped, those not in checked make the
\* batch, the batch is processed (every resolved artist enters checked,
\* line 412) and the results are counted and merged
traverse_loop_batch(tr, popped_ids, results) ==
  LET batch == popped_ids \ tr.checked
      found == {a \in batch : results[a].artist}
      counting == {a \in batch : counts_result(results[a])}
      checked_after == tr.checked \cup found
  IN  IF batch = {}
      THEN [tr EXCEPT !.pc = "done", !.artists = @ \ popped_ids]
      ELSE [tr EXCEPT
              !.checked = checked_after,
              !.count = @ + Cardinality(counting),
              !.resolved = @ \cup found,
              !.artists = (@ \ popped_ids)
                 \cup UNION {results[a].new_ids \ checked_after : a \in counting}]

\* ------------------------------------------------------------------------
\* traverser_bulk.BulkTraverser, the breadth-first variant with batches
\* ------------------------------------------------------------------------
\* size=5 of the call of _get_batch_from_queue in traverse(), and the
\* number of pending artists that triggers a save inside the loop
BulkBatchSize == 5
BulkSaveThreshold == 10

\* BulkTraverser(start_id, db, max_depth): queue entries are <<id, depth>>;
\* `db` holds the ids of the artists in the database, `batch` the rest of
\* the batch being processed, `fetched` the ids fetched from the API, in
\* order; pending_artists maps an id to whether releases were collected
BulkTraverser(start_id, db, max_depth) ==
  [pc |-> "loop", max_depth |-> max_depth, db |-> db,
   queue |-> <<<<start_id, 0>>>>, processed |-> {}, batch |-> <<>>,
   existing |-> {}, pending_artists |-> {}, pending_with_releases |-> {},
   stats |-> [artists |-> 0, api_calls |-> 0, db_hits |-> 0],
   fetched |-> <<>>]

\* no BulkTraverser has been built
NoBulkTraverser ==
  [BulkTraverser(None, {}, 0) EXCEPT !.pc = "none", !.queue = <<>>]

\* _get_batch_from_queue(size), started with the batch collected so far:
\* entries are popped until the batch is full or the queue is empty, and
\* kept when their id is not processed and their depth is within max_depth
RECURSIVE get_batch_from_queue(_, _, _)
get_batch_from_queue(bt, batch_so_far, size) ==
  IF bt.queue # <<>> /\ Len(batch_so_far) < size
  THEN LET entry == Head(bt.queue)
           keep == entry[1] \notin bt.processed /\ entry[2] <= bt.max_depth
       IN  get_batch_from_queue([bt EXCEPT !.queue = Tail(@)],
                                IF keep THEN Append(batch_so_far, entry)
                                        ELSE batch_so_far,
                                size)
  ELSE [bt EXCEPT !.batch = batch_so_far]

\* lines 135-137 and 284-286: the collaborators not yet processed are
\* appended to the queue one level deeper, in the iteration order of the set
RECURSIVE queue_collaborators(_, _, _)
queue_collaborators(bt, collaborators, depth) ==
  IF collaborators = <<>>
  THEN bt
  ELSE queue_collaborators(
         IF Head(collaborators) \notin bt.processed
         THEN [bt EXCEPT !.queue = Append(@, <<Head(collaborators), depth + 1>>)]
         ELSE bt,
         Tail(collaborators), depth)

\* _process_new_artist(artist_id, depth): `result` is what the API gives
\* (artist FALSE: not found or an exception), collaborators the ids that
\* _process_releases_bulk returns, in iteration order
process_new_artist(bt, artist_id, depth, result) ==
  LET called == [bt EXCEPT !.stats.api_calls = @ + 1,
                           !.fetched = Append(@, artist_id)]
      stored == [called EXCEPT
                   !.pending_artists = @ \cup {artist_id},
                   !.pending_with_releases =
                      IF result.releases THEN @ \cup {artist_id} ELSE @]
  IN  IF ~result.artist THEN called
      ELSE IF depth < bt.max_depth
           THEN queue_collaborators(stored, result.collaborators, depth)
           ELSE stored

\* lines 70-82: the body of the for loop of traverse() for one entry of
\* the batch
process_batch_entry(bt, artist_id, depth, result) ==
  LET handled ==
        IF artist_id \in bt.existing
        THEN LET hit == [bt EXCEPT !.stats.db_hits = @ + 1]
             IN  IF depth < bt.max_depth /\ result.artist
                 THEN queue_collaborators(hit, result.collaborators, depth)
                 ELSE hit
        ELSE process_new_artist(bt, artist_id, depth, result)
  IN  [handled EXCEPT !.processed = @ \cup {artist_id},
                      !.stats.artists = @ + 1,
                      !.batch = Tail(@)]

\* _bulk_save(): the pending artists with releases are created, all
\* pending data is cleared
bulk_save(bt) ==
  IF bt.pending_artists = {}
  THEN bt
  ELSE [bt EXCEPT !.db = @ \cup bt.pending_with_releases,
                  !.pending_artists = {},
                  !.pending_with_releases = {}]

\* ------------------------------------------------------------------------
\* traverser_optimized.AsyncDiscoConnector._execute_with_retry
\* ------------------------------------------------------------------------
MAX_RETRIES == 3
RETRY_DELAY == 1

\* what one run of func in the executor can give: an object, None (the
\* artist does not exist upstream), an HTTPError with status 429, another
\* 4xx status or a 5xx status, or an exception that is not an HTTPError
AsyncOutcomes == {"ok", "None", "429", "4xx", "5xx", "error"}

\* the methods of the connector that go through _execute_with_retry
\* (lines 100-116)
AsyncCalls == {"fetch_artist_by_discogs_id", "get_artist", "get_release"}

\* a call of _execute_with_retry for func: `attempt` is the loop variable, `made`
\* the outcomes of the attempts so far, `slept` the arguments of
\* asyncio.sleep, `waits` the calls of rate_limiter.wait_if_needed and
\* `ret` what the call gave its caller
AsyncCall(pc_value, func) ==
  [pc |-> pc_value, func |-> func, attempt |-> 0, made |-> <<>>,
   slept |-> <<>>, waits |-> 0, ret |-> "pending"]

\* no call has been made
NoAsyncCall == AsyncCall("idle", "none")

\* the end of the for loop: after the last attempt `return None` (line 98)
next_attempt(c) ==
  IF c.attempt + 1 < MAX_RETRIES
  THEN [c EXCEPT !.attempt = @ + 1]
  ELSE [c EXCEPT !.attempt = @ + 1, !.pc = "returned", !.ret = "None"]

\* lines 71-96: one pass of the for loop with the outcome of func
execute_attempt(c, outcome) ==
  LET tried == [c EXCEPT !.waits = @ + 1, !.made = Append(@, outcome)]
  IN  CASE outcome \in {"ok", "None"} ->
             [tried EXCEPT !.pc = "returned", !.ret = outcome]
        [] outcome = "429" ->
             next_attempt([tried EXCEPT
                             !.slept = Append(@, RETRY_DELAY * (c.attempt + 1))])
        [] outcome = "5xx" ->
             next_attempt([tried EXCEPT !.slept = Append(@, RETRY_DELAY)])
        [] outcome = "4xx" ->
             [tried EXCEPT !.pc = "raised", !.ret = "HTTPError"]
        [] OTHER ->
             IF c.attempt = MAX_RETRIES - 1
             THEN [tried EXCEPT !.pc = "raised", !.ret = "Exception"]
             ELSE next_attempt([tried EXCEPT !.slept = Append(@, RETRY_DELAY)])

\* AsyncStepTraverser.get_or_create_artist, lines 142-145: what the caller
\* of fetch_artist_by_discogs_id makes of the call
artist_lookup(c) ==
  CASE c.pc = "raised" -> c.ret
    [] c.ret = "ok" -> "artist"
    [] OTHER -> "not found"

\* ------------------------------------------------------------------------
\* crud.artist.create_with_releases
\* ------------------------------------------------------------------------
\* the tables artist, release and artist_release (links are pairs
\* <<artist discogs_id, release discogs_id>>), and the calls made:
\* `last` is the last call with the tables as they were before it,
\* `previous` the input of the call before that
NoInput == [discogs_id |-> None, releases |-> {}]
EmptyTables == [artists |-> {}, releases |-> {}, links |-> {}]
Database(tables) ==
  [tables |-> tables,
   last |-> [artist_in |-> NoInput, before |-> tables, ret |-> None],
   previous |-> NoInput]
NoDatabase == Database(EmptyTables)

\* release_crud.get_by_discogs_id(db, discogs_id): the row or nothing
release_exists(tables, release_id) == release_id \in tables.releases

\* release_crud.create(db, obj_in): CRUDBase is not part of the sources;
\* the call is taken to store the row, commit and return it
release_create(tables, release_id) ==
  [tables EXCEPT !.releases = @ \cup {release_id}]

\* lines 31-38: the releases of artist_in that are not in the database are
\* created; releases_db holds these and no others
RECURSIVE create_missing_releases(_, _, _)
create_missing_releases(tables, releases, releases_db) ==
  IF releases = {}
  THEN [tables |-> tables, releases_db |-> releases_db]
  ELSE LET release == CHOOSE r \in releases : \A o \in releases : r <= o
       IN  IF ~release_exists(tables, release)
           THEN create_missing_releases(release_create(tables, release),
                                        releases \ {release},
                                        releases_db \cup {release})
           ELSE create_missing_releases(tables, releases \ {release}, releases_db)

\* create_with_releases(db, artist_in), lines 30-52: the artist row is
\* looked up or made, and releases_db is appended to its releases
create_with_releases(tables, artist_in) ==
  LET made == create_missing_releases(tables, artist_in.releases, {})
      new_links == {<<artist_in.discogs_id, r>> : r \in made.releases_db}
  IN  [made.tables EXCEPT !.artists = @ \cup {artist_in.discogs_id},
                          !.links = @ \cup new_links]

\* no other variant is running
IdleVariants ==
  /\ traverser = NoTraverser
  /\ async_traverser = NoAsyncTraverser
  /\ bulk_traverser = NoBulkTraverser
  /\ async_connector = NoAsyncCall
  /\ database = NoDatabase

\* ------------------------------------------------------------------------
\* TraversalConfig, TraversalStatistics
\* ------------------------------------------------------------------------
OptionalUpTo(n) == {None} \cup (0..n)

TraversalConfig ==
  [max_artists : 0..MaxArtists,
   queue_strategy : QueueStrategy,
   max_queue_size : OptionalUpTo(MaxQueueSize),
   max_depth : OptionalUpTo(MaxDepth),
   time_limit_seconds : OptionalUpTo(MaxTimeLimit),
   error_threshold : OptionalUpTo(MaxErrorThreshold)]

TraversalStatistics(t) ==
  [artists_processed |-> 0, artists_discovered |-> 0, errors |-> 0,
   queue_peak_size |-> 0, total_queue_additions |-> 0,
   start_time |-> t, end_time |-> None, termination_reason |-> "",
   processed_artist_ids |-> <<>>]

\* what the clock can return on the next call of time.time()
TimeReads == now..MaxClock

NoProc ==
  [capacity |-> 0, added_to_queue |-> 0, paginated |-> FALSE,
   page_num |-> 0, total_pages |-> 0]

NoCall == [op |-> "none", item |-> NoItem, ret |-> "None"]

\* the number of collaborators every artist exposes in the fan-out scenario
FanOut == 3

NoHist == [offered |-> 0]

\* ------------------------------------------------------------------------
\* SpecQueue: a SmartTraversalQueue used directly
\* ------------------------------------------------------------------------
InitQueue ==
  /\ pc = "api"
  /\ config \in {c \in TraversalConfig :
                   /\ c.max_artists = 0 /\ c.max_depth = None
                   /\ c.time_limit_seconds = None /\ c.error_threshold = None}
  /\ queue = SmartTraversalQueue(config.queue_strategy, config.max_queue_size)
  /\ statistics = TraversalStatistics(0)
  /\ stop_requested = FALSE
  /\ now = 0
  /\ queue_item = NoItem
  /\ proc = NoProc
  /\ last = NoCall
  /\ add_calls = 0
  /\ popped = <<>>
  /\ hist = NoHist
  /\ catalog = NoCatalog
  /\ release_cache = NoCache
  /\ extracted = NoExtraction
  /\ IdleServices
  /\ IdleVariants

\* queue.add(item), the item built by the caller at clock value t
QAdd(id, depth, priority, t) ==
  /\ pc = "api"
  /\ add_calls < MaxAddCalls
  /\ LET item == ArtistQueueItem(id, depth, priority, None, t)
         r == add(queue, item)
     IN  /\ queue' = r.q
         /\ last' = [NoCall EXCEPT !.op = "add", !.item = item, !.ret = r.ret]
  /\ now' = t
  /\ add_calls' = add_calls + 1
  /\ UNCHANGED <<pc, config, statistics, stop_requested, queue_item, proc,
                 popped, hist, catalog, release_cache, extracted, services, variants>>

\* queue.get_next()
QGetNext ==
  /\ pc = "api"
  /\ LET r == get_next(queue)
     IN  /\ queue' = r.q
         /\ last' = [NoCall EXCEPT !.op = "get_next", !.item = r.item, !.ret = r.ret]
         /\ popped' = IF r.ret = "item" THEN Append(popped, r.item.discogs_id)
                      ELSE popped
  /\ UNCHANGED <<pc, config, statistics, stop_requested, now, queue_item,
                 proc, add_calls, hist, catalog, release_cache, extracted, services, variants>>

NextQueue ==
  \/ \E id \in Ids, depth \in 0..MaxItemDepth,
        priority \in {DefaultPriority, SeedPriority}, t \in TimeReads :
       QAdd(id, depth, priority, t)
  \/ QGetNext

SpecQueue == InitQueue /\ [][NextQueue]_vars


\* ------------------------------------------------------------------------
\* Spec: QueueBasedTraversalManager.traverse
\* ------------------------------------------------------------------------
Init ==
  /\ pc = "init"
  /\ config \in TraversalConfig
  /\ queue = SmartTraversalQueue(config.queue_strategy, config.max_queue_size)
  /\ statistics = TraversalStatistics(0)
  /\ stop_requested = FALSE
  /\ now = 0
  /\ queue_item = NoItem
  /\ proc = NoProc
  /\ last = NoCall
  /\ add_calls = 0
  /\ popped = <<>>
  /\ hist = NoHist
  /\ catalog = NoCatalog
  /\ release_cache = NoCache
  /\ extracted = NoExtraction
  /\ IdleServices
  /\ IdleVariants

\* the ids traverse is started from: ids are only ever compared for
\* equality, so one seed stands for all
SeedIds == {1}

\* an id is fresh when the queue has never held it
Fresh(q, id) ==
  /\ id \notin q.seen
  /\ id \notin q.processed
  /\ \A i \in 1..Len(q._queue) : q._queue[i].discogs_id # id

\* the final statistics reporting the number of additions as the peak size
Finalize_additions_as_peak(stats, q, t) ==
  [stats EXCEPT !.end_time = t,
                !.queue_peak_size = q.total_additions,
                !.total_queue_additions = q.total_additions]

\* lines 420-424: statistics as traverse returns them, end_time read at t
Finalize(stats, q, t) ==
  [stats EXCEPT !.end_time = t,
                !.queue_peak_size = q.peak_size,
                !.total_queue_additions = q.total_additions]

\* traverse(starting_artist_id) up to the loop: the seed is queued
StartTraverse(seed, t) ==
  /\ pc = "init"
  /\ queue' = add(queue, ArtistQueueItem(seed, 0, SeedPriority, None, t)).q
  /\ now' = t
  /\ pc' = "loop"
  /\ UNCHANGED <<config, statistics, stop_requested, queue_item, proc, last,
                 add_calls, popped, hist, catalog, release_cache, extracted, services, variants>>

\* should_terminate reads the clock only when it gets to the time limit
ClockReadAtCheck ==
  IF /\ statistics.artists_processed < config.max_artists
     /\ ~is_empty(queue)
     /\ Truthy(config.time_limit_seconds)
  THEN TimeReads ELSE {now}

\* loop top: a termination condition holds
Terminate(t, t2) ==
  /\ pc = "loop"
  /\ t \in ClockReadAtCheck
  /\ t2 >= t
  /\ LET reason == should_terminate(queue, config, statistics, t)
     IN  /\ reason # NoReason
         /\ statistics' = Finalize([statistics EXCEPT !.termination_reason = reason],
                                   queue, t2)
  /\ now' = t2
  /\ pc' = "done"
  /\ UNCHANGED <<config, queue, stop_requested, queue_item, proc, last,
                 add_calls, popped, hist, catalog, release_cache, extracted, services, variants>>

\* loop top: no termination condition, stop() was called
ManualStop(t, t2) ==
  /\ pc = "loop"
  /\ t \in ClockReadAtCheck
  /\ t2 >= t
  /\ should_terminate(queue, config, statistics, t) = NoReason
  /\ stop_requested
  /\ statistics' = Finalize([statistics EXCEPT !.termination_reason = MANUAL_STOP],
                            queue, t2)
  /\ now' = t2
  /\ pc' = "done"
  /\ UNCHANGED <<config, queue, stop_requested, queue_item, proc, last,
                 add_calls, popped, hist, catalog, release_cache, extracted, services, variants>>

\* the loop top popping the next item without looking at stop_requested
GetNext_ignoring_stop(t) ==
  /\ pc = "loop"
  /\ t \in ClockReadAtCheck
  /\ should_terminate(queue, config, statistics, t) = NoReason
  /\ LET r == get_next(queue)
     IN  /\ queue' = r.q
         /\ IF r.ret = "item"
            THEN /\ queue_item' = r.item
                 /\ pc' = "resolve"
                 /\ statistics' = statistics
            ELSE IF r.ret = "TypeError"
            THEN /\ pc' = "crashed"
                 /\ UNCHANGED <<queue_item, statistics>>
            ELSE /\ pc' = "done"
                 /\ statistics' =
                      Finalize([statistics EXCEPT !.termination_reason = QUEUE_EMPTY],
                               r.q, t)
                 /\ queue_item' = queue_item
  /\ now' = t
  /\ UNCHANGED <<config, stop_requested, proc, last, add_calls, popped, hist, catalog, release_cache, extracted, services, variants>>

\* loop top: the next item is popped; a TypeError of heappop leaves traverse
GetNext(t) ==
  /\ pc = "loop"
  /\ t \in ClockReadAtCheck
  /\ should_terminate(queue, config, statistics, t) = NoReason
  /\ ~stop_requested
  /\ LET r == get_next(queue)
     IN  /\ queue' = r.q
         /\ IF r.ret = "item"
            THEN /\ queue_item' = r.item
                 /\ pc' = "resolve"
                 /\ statistics' = statistics
            ELSE IF r.ret = "TypeError"
            THEN /\ pc' = "crashed"
                 /\ UNCHANGED <<queue_item, statistics>>
            ELSE /\ pc' = "done"
                 /\ statistics' =
                      Finalize([statistics EXCEPT !.termination_reason = QUEUE_EMPTY],
                               r.q, t)
                 /\ queue_item' = queue_item
  /\ now' = t
  /\ UNCHANGED <<config, stop_requested, proc, last, add_calls, popped, hist, catalog, release_cache, extracted, services, variants>>

\* get_or_create_artist returns an artist: from the session cache, from the
\* database, or fetched and created
ResolveOk ==
  /\ pc = "resolve"
  /\ statistics' = [statistics EXCEPT
                      !.artists_processed = @ + 1,
                      !.processed_artist_ids = Append(@, queue_item.discogs_id)]
  /\ pc' = "fetch"
  /\ UNCHANGED <<config, queue, stop_requested, now, queue_item, proc, last,
                 add_calls, popped, hist, catalog, release_cache, extracted, services, variants>>

\* get_or_create_artist returns None: the id is unknown upstream, or
\* _fetch_and_create_artist caught an error (retries exhausted, create failed)
ResolveNone ==
  /\ pc = "resolve"
  /\ pc' = "log"
  /\ UNCHANGED <<config, queue, statistics, stop_requested, now, queue_item,
                 proc, last, add_calls, popped, hist, catalog, release_cache, extracted, services, variants>>

\* get_or_create_artist raises: artist_crud.get_by_discogs_id is outside
\* every try block of the processor
ResolveRaises ==
  /\ pc = "resolve"
  /\ pc' = "except"
  /\ UNCHANGED <<config, queue, statistics, stop_requested, now, queue_item,
                 proc, last, add_calls, popped, hist, catalog, release_cache, extracted, services, variants>>

\* fetch_artist_releases returns None or an empty collection
FetchNone ==
  /\ pc = "fetch"
  /\ pc' = "log"
  /\ UNCHANGED <<config, queue, statistics, stop_requested, now, queue_item,
                 proc, last, add_calls, popped, hist, catalog, release_cache, extracted, services, variants>>

\* evaluating the collection (`not releases`, `releases.pages`) raises
FetchRaises ==
  /\ pc = "fetch"
  /\ pc' = "except"
  /\ UNCHANGED <<config, queue, statistics, stop_requested, now, queue_item,
                 proc, last, add_calls, popped, hist, catalog, release_cache, extracted, services, variants>>

\* the depth test at the head of _process_releases_with_queue
max_depth_reached(cfg, parent_item) ==
  Truthy(cfg.max_depth) /\ parent_item.depth >= cfg.max_depth

\* fetch_artist_releases returns releases: the capacity is computed and
\* _process_releases_with_queue entered; pages = None for a plain list
FetchReleases(pages) ==
  /\ pc = "fetch"
  /\ IF max_depth_reached(config, queue_item)
     THEN /\ pc' = "log"
          /\ proc' = NoProc
     ELSE /\ pc' = "releases"
          /\ proc' = [capacity |-> can_accept_more(queue, config, statistics),
                      added_to_queue |-> 0,
                      paginated |-> pages # None,
                      page_num |-> IF pages # None THEN 1 ELSE 0,
                      total_pages |-> IF pages # None THEN pages ELSE 0]
  /\ UNCHANGED <<config, queue, statistics, stop_requested, now, queue_item,
                 last, add_calls, popped, hist, catalog, release_cache, extracted, services, variants>>

\* there is a release left to look at: the loops have not run out of pages
\* and no `added_to_queue >= capacity` test has broken out of them
InLoops ==
  /\ pc = "releases"
  /\ proc.added_to_queue < proc.capacity
  /\ proc.paginated => proc.page_num <= proc.total_pages

\* one pass of `for artist_id in artists`: the item is built at clock value
\* t and offered to the queue
Offer(id, t) ==
  /\ InLoops
  /\ id # queue_item.discogs_id
  /\ LET item == ArtistQueueItem(id, queue_item.depth + 1, DefaultPriority,
                                 queue_item.discogs_id, t)
         r == add(queue, item)
     IN  /\ queue' = r.q
         /\ IF r.ret = "True"
            THEN /\ proc' = [proc EXCEPT !.added_to_queue = @ + 1]
                 /\ statistics' = [statistics EXCEPT !.artists_discovered = @ + 1]
                 /\ pc' = pc
            ELSE IF r.ret = "False"
            THEN UNCHANGED <<proc, statistics, pc>>
            ELSE IF proc.paginated
            THEN /\ proc' = [proc EXCEPT !.page_num = @ + 1]
                 /\ statistics' = [statistics EXCEPT !.errors = @ + 1]
                 /\ pc' = pc
            ELSE /\ pc' = "except"
                 /\ UNCHANGED <<proc, statistics>>
  /\ now' = t
  /\ UNCHANGED <<config, stop_requested, queue_item, last, add_calls, popped,
                 catalog, release_cache, extracted, services, variants>>

OfferChild(id, t) == Offer(id, t) /\ UNCHANGED hist

\* the current page is exhausted
NextPage ==
  /\ InLoops
  /\ proc.paginated
  /\ proc' = [proc EXCEPT !.page_num = @ + 1]
  /\ UNCHANGED <<pc, config, queue, statistics, stop_requested, now,
                 queue_item, last, add_calls, popped, hist, catalog, release_cache, extracted, services, variants>>

\* releases.page(n) or the use of its releases raises: caught per page
PageRaises ==
  /\ InLoops
  /\ proc.paginated
  /\ proc' = [proc EXCEPT !.page_num = @ + 1]
  /\ statistics' = [statistics EXCEPT !.errors = @ + 1]
  /\ UNCHANGED <<pc, config, queue, stop_requested, now, queue_item, last,
                 add_calls, popped, hist, catalog, release_cache, extracted, services, variants>>

\* iterating a plain collection of releases raises
ReleasesRaise ==
  /\ InLoops
  /\ ~proc.paginated
  /\ pc' = "except"
  /\ UNCHANGED <<config, queue, statistics, stop_requested, now, queue_item,
                 proc, last, add_calls, popped, hist, catalog, release_cache, extracted, services, variants>>

\* the loops over the releases end: out of releases or out of capacity
EndReleases ==
  /\ pc = "releases"
  /\ proc.paginated /\ proc.added_to_queue < proc.capacity
       => proc.page_num > proc.total_pages
  /\ pc' = "log"
  /\ UNCHANGED <<config, queue, statistics, stop_requested, now, queue_item,
                 proc, last, add_calls, popped, hist, catalog, release_cache, extracted, services, variants>>

\* the except clause leaving the loop without recording a reason
HandleException_no_reason(t) ==
  /\ pc = "except"
  /\ LET errors == statistics.errors + 1 IN
     IF Truthy(config.error_threshold) /\ errors >= config.error_threshold
     THEN /\ statistics' = Finalize([statistics EXCEPT !.errors = errors], queue, t)
          /\ now' = t
          /\ pc' = "done"
     ELSE /\ statistics' = [statistics EXCEPT !.errors = errors]
          /\ t = now
          /\ now' = now
          /\ pc' = "log"
  /\ UNCHANGED <<config, queue, stop_requested, queue_item, proc, last,
                 add_calls, popped, hist, catalog, release_cache, extracted, services, variants>>

\* the except clause ending the run at the first exception
HandleException_abort(t) ==
  /\ pc = "except"
  /\ statistics' =
       Finalize([statistics EXCEPT
                   !.errors = @ + 1,
                   !.termination_reason = ERROR_THRESHOLD_EXCEEDED],
                queue, t)
  /\ now' = t
  /\ pc' = "done"
  /\ UNCHANGED <<config, queue, stop_requested, queue_item, proc, last,
                 add_calls, popped, hist, catalog, release_cache, extracted, services, variants>>

\* the except clause of the loop in traverse
HandleException(t) ==
  /\ pc = "except"
  /\ LET errors == statistics.errors + 1 IN
     IF Truthy(config.error_threshold) /\ errors >= config.error_threshold
     THEN /\ statistics' =
               Finalize([statistics EXCEPT
                           !.errors = errors,
                           !.termination_reason = ERROR_THRESHOLD_EXCEEDED],
                        queue, t)
          /\ now' = t
          /\ pc' = "done"
     ELSE /\ statistics' = [statistics EXCEPT !.errors = errors]
          /\ t = now
          /\ now' = now
          /\ pc' = "log"
  /\ UNCHANGED <<config, queue, stop_requested, queue_item, proc, last,
                 add_calls, popped, hist, catalog, release_cache, extracted, services, variants>>

\* the progress test that ends every iteration
LogProgress ==
  /\ pc = "log"
  /\ statistics.artists_processed % log_progress_interval \in 0..(log_progress_interval - 1)
  /\ pc' = "loop"
  /\ queue_item' = NoItem
  /\ proc' = NoProc
  /\ UNCHANGED <<config, queue, statistics, stop_requested, now, last,
                 add_calls, popped, hist, catalog, release_cache, extracted, services, variants>>

\* stop(), called from outside while the manager exists
Stop ==
  /\ pc \notin {"api", "done", "crashed"}
  /\ ~stop_requested
  /\ stop_requested' = TRUE
  /\ UNCHANGED <<pc, config, queue, statistics, now, queue_item, proc, last,
                 add_calls, popped, hist, catalog, release_cache, extracted, services, variants>>

Next ==
  \/ \E seed \in SeedIds, t \in TimeReads : StartTraverse(seed, t)
  \/ \E t \in TimeReads, t2 \in TimeReads : Terminate(t, t2)
  \/ \E t \in TimeReads, t2 \in TimeReads : ManualStop(t, t2)
  \/ \E t \in TimeReads : GetNext(t)
  \/ ResolveOk
  \/ ResolveNone
  \/ ResolveRaises
  \/ FetchNone
  \/ FetchRaises
  \/ \E pages \in OptionalUpTo(MaxPages) : FetchReleases(pages)
  \/ \E id \in Ids, t \in TimeReads : OfferChild(id, t)
  \/ NextPage
  \/ PageRaises
  \/ ReleasesRaise
  \/ EndReleases
  \/ \E t \in TimeReads : HandleException(t)
  \/ LogProgress
  \/ Stop

Spec == Init /\ [][Next]_vars


\* ------------------------------------------------------------------------
\* SpecTerminate: should_terminate as a function of its arguments
\* ------------------------------------------------------------------------
InitTerminate ==
  /\ pc = "api"
  /\ config \in {c \in TraversalConfig :
                   /\ c.queue_strategy = "bfs" /\ c.max_queue_size = None
                   /\ c.max_depth = None}
  /\ \E n \in 0..1 :
       queue = IF n = 0
               THEN SmartTraversalQueue(config.queue_strategy, config.max_queue_size)
               ELSE add(SmartTraversalQueue(config.queue_strategy, config.max_queue_size),
                        ArtistQueueItem(1, 0, SeedPriority, None, 0)).q
  /\ \E processed \in 0..MaxArtists, errors \in 0..MaxErrorThreshold :
       statistics = [TraversalStatistics(0) EXCEPT !.artists_processed = processed,
                                                   !.errors = errors]
  /\ stop_requested = FALSE
  /\ now = 0
  /\ queue_item = NoItem
  /\ proc = NoProc
  /\ last = NoCall
  /\ add_calls = 0
  /\ popped = <<>>
  /\ hist = NoHist
  /\ catalog = NoCatalog
  /\ release_cache = NoCache
  /\ extracted = NoExtraction
  /\ IdleServices
  /\ IdleVariants

\* queue.should_terminate(config, statistics), the clock at t if it is read
QShouldTerminate(t) ==
  /\ pc = "api"
  /\ last' = [NoCall EXCEPT !.op = "should_terminate",
                            !.ret = should_terminate(queue, config, statistics, t)]
  /\ now' = t
  /\ UNCHANGED <<pc, config, queue, statistics, stop_requested, queue_item,
                 proc, add_calls, popped, hist, catalog, release_cache, extracted, services, variants>>

NextTerminate == \E t \in TimeReads : QShouldTerminate(t)

SpecTerminate == InitTerminate /\ [][NextTerminate]_vars

\* ------------------------------------------------------------------------
\* SpecFanOut: traverse in the fan-out scenario
\* ------------------------------------------------------------------------
InitFanOut ==
  /\ pc = "init"
  /\ \E n \in 1..(MaxArtists + 1), strategy \in QueueStrategy :
       config = [max_artists |-> n, queue_strategy |-> strategy,
                 max_queue_size |-> None, max_depth |-> None,
                 time_limit_seconds |-> None, error_threshold |-> None]
  /\ queue = SmartTraversalQueue(config.queue_strategy, config.max_queue_size)
  /\ statistics = TraversalStatistics(0)
  /\ stop_requested = FALSE
  /\ now = 0
  /\ queue_item = NoItem
  /\ proc = NoProc
  /\ last = NoCall
  /\ add_calls = 0
  /\ popped = <<>>
  /\ hist = NoHist
  /\ catalog = NoCatalog
  /\ release_cache = NoCache
  /\ extracted = NoExtraction
  /\ IdleServices
  /\ IdleVariants

\* the artist exposes one more collaborator, one the run has not seen
FanOutOffer(id, t) ==
  /\ Fresh(queue, id)
  /\ hist.offered < FanOut
  /\ Offer(id, t)
  /\ hist' = IF pc' = "except" THEN NoHist
             ELSE [hist EXCEPT !.offered = @ + 1]

\* the loops end: all FanOut collaborators were offered, or a capacity
\* test broke out of the loops
FanOutEnd ==
  /\ hist.offered = FanOut \/ proc.added_to_queue >= proc.capacity
  /\ pc = "releases"
  /\ pc' = "log"
  /\ hist' = NoHist
  /\ UNCHANGED <<config, queue, statistics, stop_requested, now, queue_item,
                 proc, last, add_calls, popped, catalog, release_cache,
                 extracted, services, variants>>

NextFanOut ==
  \/ \E seed \in SeedIds, t \in TimeReads : StartTraverse(seed, t)
  \/ \E t \in TimeReads, t2 \in TimeReads : Terminate(t, t2)
  \/ \E t \in TimeReads : GetNext(t)
  \/ ResolveOk
  \/ \E pages \in OptionalUpTo(MaxPages) \ {0} : FetchReleases(pages)
  \/ \E id \in Ids, t \in TimeReads : FanOutOffer(id, t)
  \/ NextPage
  \/ FanOutEnd
  \/ \E t \in TimeReads : HandleException(t)
  \/ LogProgress

SpecFanOut == InitFanOut /\ [][NextFanOut]_vars

\* ------------------------------------------------------------------------
\* SpecAccept: can_accept_more as a function of its arguments
\* ------------------------------------------------------------------------
InitAccept ==
  /\ pc = "api"
  /\ config \in {c \in TraversalConfig :
                   /\ c.queue_strategy = "bfs" /\ c.max_depth = None
                   /\ c.time_limit_seconds = None /\ c.error_threshold = None}
  /\ \E n \in 0..2 :
       LET q0 == SmartTraversalQueue(config.queue_strategy, config.max_queue_size)
           q1 == add(q0, ArtistQueueItem(1, 0, SeedPriority, None, 0)).q
           q2 == add(q1, ArtistQueueItem(2, 1, DefaultPriority, 1, 0)).q
       IN  queue = IF n = 0 THEN q0 ELSE IF n = 1 THEN q1 ELSE q2
  /\ \E processed \in 0..MaxArtists :
       statistics = [TraversalStatistics(0) EXCEPT !.artists_processed = processed]
  /\ stop_requested = FALSE
  /\ now = 0
  /\ queue_item = NoItem
  /\ proc = NoProc
  /\ last = NoCall
  /\ add_calls = 0
  /\ popped = <<>>
  /\ hist = NoHist
  /\ catalog = NoCatalog
  /\ release_cache = NoCache
  /\ extracted = NoExtraction
  /\ IdleServices
  /\ IdleVariants

\* capacity = queue.can_accept_more(config, statistics)
QCanAcceptMore ==
  /\ pc = "api"
  /\ last.op = "none"
  /\ last' = [NoCall EXCEPT !.op = "can_accept_more"]
  /\ proc' = [NoProc EXCEPT !.capacity = can_accept_more(queue, config, statistics)]
  /\ UNCHANGED <<pc, config, queue, statistics, stop_requested, now, queue_item,
                 add_calls, popped, hist, catalog, release_cache, extracted, services, variants>>

NextAccept == QCanAcceptMore

SpecAccept == InitAccept /\ [][NextAccept]_vars

\* ------------------------------------------------------------------------
\* SpecBfs: traverse with the BFS strategy, with room for one artist more
\* than in Spec so that two depths are pending at once
\* ------------------------------------------------------------------------
InitBfs ==
  /\ pc = "init"
  /\ \E c \in TraversalConfig, n \in 1..(MaxArtists + 1) :
       /\ c.queue_strategy = "bfs"
       /\ c.time_limit_seconds = None
       /\ config = [c EXCEPT !.max_artists = n]
  /\ queue = SmartTraversalQueue(config.queue_strategy, config.max_queue_size)
  /\ statistics = TraversalStatistics(0)
  /\ stop_requested = FALSE
  /\ now = 0
  /\ queue_item = NoItem
  /\ proc = NoProc
  /\ last = NoCall
  /\ add_calls = 0
  /\ popped = <<>>
  /\ hist = NoHist
  /\ catalog = NoCatalog
  /\ release_cache = NoCache
  /\ extracted = NoExtraction
  /\ IdleServices
  /\ IdleVariants

SpecBfs == InitBfs /\ [][Next]_vars

\* ------------------------------------------------------------------------
\* SpecStop: traverse as a running thread (it takes its next step whenever
\* it has one) with stop() called from another thread at any point
\* ------------------------------------------------------------------------
InitStop ==
  /\ pc = "init"
  /\ config \in {c \in TraversalConfig :
                   /\ c.max_queue_size = None /\ c.max_depth = None
                   /\ c.time_limit_seconds = None}
  /\ queue = SmartTraversalQueue(config.queue_strategy, config.max_queue_size)
  /\ statistics = TraversalStatistics(0)
  /\ stop_requested = FALSE
  /\ now = 0
  /\ queue_item = NoItem
  /\ proc = NoProc
  /\ last = NoCall
  /\ add_calls = 0
  /\ popped = <<>>
  /\ hist = NoHist
  /\ catalog = NoCatalog
  /\ release_cache = NoCache
  /\ extracted = NoExtraction
  /\ IdleServices
  /\ IdleVariants

SpecStop == InitStop /\ [][Next]_vars /\ WF_vars(Next)

\* ------------------------------------------------------------------------
\* SpecExtract: a ReleaseProcessor asked to extract the artists of the
\* releases of a catalog, for any current artist and any flags
\* ------------------------------------------------------------------------
InitExtract ==
  /\ pc = "api"
  /\ config \in {c \in TraversalConfig :
                   /\ c.max_artists = 0 /\ c.queue_strategy = "bfs"
                   /\ c.max_queue_size = None /\ c.max_depth = None
                   /\ c.time_limit_seconds = None /\ c.error_threshold = None}
  /\ queue = SmartTraversalQueue(config.queue_strategy, config.max_queue_size)
  /\ statistics = TraversalStatistics(0)
  /\ stop_requested = FALSE
  /\ now = 0
  /\ queue_item = NoItem
  /\ proc = NoProc
  /\ last = NoCall
  /\ add_calls = 0
  /\ popped = <<>>
  /\ hist = NoHist
  /\ catalog \in [ReleaseIds -> Releases]
  /\ \A r \in ReleaseIds : catalog[r].id = r
  /\ release_cache = NoCache
  /\ extracted = NoExtraction
  /\ IdleServices
  /\ IdleVariants

\* release_processor.extract_artists_from_release(release, current_artist_id,
\* include_extras=..., include_credits=...)
Extract(release_id, current_artist_id, include_extras, include_credits) ==
  /\ pc = "api"
  /\ LET r == extract_artists_from_release(release_cache, catalog[release_id],
                                           current_artist_id, include_extras,
                                           include_credits)
     IN  /\ release_cache' = r.cache
         /\ extracted' = [op |-> "extract", release_id |-> release_id,
                          current_artist_id |-> current_artist_id,
                          include_extras |-> include_extras,
                          include_credits |-> include_credits,
                          cached |-> r.cached, ret |-> r.ret,
                          errors |-> extracted.errors + r.errors]
  /\ UNCHANGED <<pc, config, queue, statistics, stop_requested, now, queue_item,
                 proc, last, add_calls, popped, hist, catalog, services, variants>>

NextExtract ==
  \E release_id \in ReleaseIds, current_artist_id \in Ids,
     include_extras \in BOOLEAN, include_credits \in BOOLEAN :
    Extract(release_id, current_artist_id, include_extras, include_credits)

SpecExtract == InitExtract /\ [][NextExtract]_vars

\* ------------------------------------------------------------------------
\* SpecMalformed: the same calls on releases whose credit lists also hold
\* references that are not well formed
\* ------------------------------------------------------------------------
ArtistReferences ==
  {a \in CreditedArtists : a.name # "Various"} \cup MalformedReferences

InitMalformed ==
  /\ pc = "api"
  /\ config \in {c \in TraversalConfig :
                   /\ c.max_artists = 0 /\ c.queue_strategy = "bfs"
                   /\ c.max_queue_size = None /\ c.max_depth = None
                   /\ c.time_limit_seconds = None /\ c.error_threshold = None}
  /\ queue = SmartTraversalQueue(config.queue_strategy, config.max_queue_size)
  /\ statistics = TraversalStatistics(0)
  /\ stop_requested = FALSE
  /\ now = 0
  /\ queue_item = NoItem
  /\ proc = NoProc
  /\ last = NoCall
  /\ add_calls = 0
  /\ popped = <<>>
  /\ hist = NoHist
  /\ catalog \in [ReleaseIds ->
                    [id : ReleaseIds,
                     artists : SeqsUpTo(ArtistReferences, MaxMainCredits),
                     extraartists : SeqsUpTo(ArtistReferences, MaxOtherCredits),
                     tracklist : SeqsUpTo(ArtistReferences, MaxOtherCredits),
                     credits : SeqsUpTo(ArtistReferences, MaxOtherCredits)]]
  /\ \A r \in ReleaseIds : catalog[r].id = r
  /\ release_cache = NoCache
  /\ extracted = NoExtraction
  /\ IdleServices
  /\ IdleVariants

SpecMalformed == InitMalformed /\ [][NextExtract]_vars



\* ------------------------------------------------------------------------
\* SpecEndToEnd: traverse from artist 1, whose one release credits artist 1,
\* artist 2 and the artist named "Various" as primary artists; no other
\* artist has releases
\* ------------------------------------------------------------------------
\* the orders in which the elements of a Python set can be iterated
Orderings(ids) ==
  {o \in [1..Len(ids) -> Range(ids)] : Range(o) = Range(ids)}

InitEndToEnd ==
  /\ pc = "init"
  /\ \E strategy \in QueueStrategy :
       config = [max_artists |-> 10, queue_strategy |-> strategy,
                 max_queue_size |-> None, max_depth |-> None,
                 time_limit_seconds |-> None, error_threshold |-> None]
  /\ queue = SmartTraversalQueue(config.queue_strategy, config.max_queue_size)
  /\ statistics = TraversalStatistics(0)
  /\ stop_requested = FALSE
  /\ now = 0
  /\ queue_item = NoItem
  /\ proc = NoProc
  /\ last = NoCall
  /\ add_calls = 0
  /\ popped = <<>>
  /\ hist = NoHist
  /\ \E credited \in [1..3 -> CreditedArtists] :
       /\ Range(credited) = CreditedArtists
       /\ catalog = [r \in ReleaseIds |->
                       [id |-> r, artists |-> credited, extraartists |-> <<>>,
                        tracklist |-> <<>>, credits |-> <<>>]]
  /\ release_cache = NoCache
  /\ \E include_credits \in BOOLEAN :
       extracted = [NoExtraction EXCEPT !.include_credits = include_credits]
  /\ IdleServices
  /\ IdleVariants

\* fetch_artist_releases for the seed: its one release, paginated or not
EndToEndFetchReleases(pages) ==
  /\ queue_item.discogs_id \in SeedIds
  /\ FetchReleases(pages)

\* fetch_artist_releases for any other artist: nothing
EndToEndFetchNone ==
  /\ queue_item.discogs_id \notin SeedIds
  /\ FetchNone

\* lines 532-537 and 570-575: the release is handed to
\* extract_artists_from_release with the flags of the configuration
EndToEndExtract(release_id) ==
  /\ InLoops
  /\ extracted.op = "none"
  /\ LET r == extract_artists_from_release(release_cache, catalog[release_id],
                                           queue_item.discogs_id,
                                           extracted.include_extras,
                                           extracted.include_credits)
     IN  /\ release_cache' = r.cache
         /\ \E ret \in Orderings(r.ret) :
              extracted' = [extracted EXCEPT
                              !.op = "extract", !.release_id = release_id,
                              !.current_artist_id = queue_item.discogs_id,
                              !.cached = r.cached, !.ret = ret,
                              !.errors = @ + r.errors]
  /\ UNCHANGED <<pc, config, queue, statistics, stop_requested, now, queue_item,
                 proc, last, add_calls, popped, hist, catalog, services, variants>>

\* one pass of `for artist_id in artists` over the set extracted
EndToEndOffer(t) ==
  /\ extracted.op = "extract"
  /\ hist.offered < Len(extracted.ret)
  /\ Offer(extracted.ret[hist.offered + 1], t)
  /\ hist' = [hist EXCEPT !.offered = @ + 1]

\* the loops end: the ids of the one release were all offered, or an
\* exception of a page ended the last page
EndToEndEnd ==
  /\ pc = "releases"
  /\ extracted.op = "extract"
  /\ hist.offered = Len(extracted.ret) \/ ~InLoops
  /\ pc' = "log"
  /\ UNCHANGED <<config, queue, statistics, stop_requested, now, queue_item,
                 proc, last, add_calls, popped, hist, catalog, release_cache,
                 extracted, services, variants>>

NextEndToEnd ==
  \/ \E seed \in SeedIds, t \in TimeReads : StartTraverse(seed, t)
  \/ \E t \in TimeReads, t2 \in TimeReads : Terminate(t, t2)
  \/ \E t \in TimeReads : GetNext(t)
  \/ ResolveOk
  \/ EndToEndFetchNone
  \/ \E pages \in OptionalUpTo(MaxPages) \ {0} : EndToEndFetchReleases(pages)
  \/ \E release_id \in ReleaseIds : EndToEndExtract(release_id)
  \/ \E t \in TimeReads : EndToEndOffer(t)
  \/ EndToEndEnd
  \/ \E t \in TimeReads : HandleException(t)
  \/ LogProgress

SpecEndToEnd == InitEndToEnd /\ [][NextEndToEnd]_vars


\* ------------------------------------------------------------------------
\* SpecResolve: an ArtistProcessor asked to resolve artists, the database
\* and the upstream catalog behaving in any way at each call
\* ------------------------------------------------------------------------
\* no traversal is running
IdleTraversal ==
  /\ pc = "api"
  /\ config = [max_artists |-> 0, queue_strategy |-> "bfs",
               max_queue_size |-> None, max_depth |-> None,
               time_limit_seconds |-> None, error_threshold |-> None]
  /\ queue = SmartTraversalQueue(config.queue_strategy, config.max_queue_size)
  /\ statistics = TraversalStatistics(0)
  /\ stop_requested = FALSE
  /\ now = 0
  /\ queue_item = NoItem
  /\ proc = NoProc
  /\ last = NoCall
  /\ add_calls = 0
  /\ popped = <<>>
  /\ hist = NoHist
  /\ catalog = NoCatalog
  /\ release_cache = NoCache
  /\ extracted = NoExtraction

InitResolve ==
  /\ IdleTraversal
  /\ IdleVariants
  /\ \E db \in SUBSET ArtistIds : artist_processor = [NoArtists EXCEPT !.db = db]
  /\ api_client = NoClient
  /\ rate_limiter = NoLimiter

\* artist_processor.get_or_create_artist(discogs_id)
GetOrCreateArtist(discogs_id, u) ==
  /\ Len(artist_processor.calls) < MaxResolveCalls
  /\ LET r == get_or_create_artist(artist_processor, discogs_id, u)
     IN  artist_processor' = [r.a EXCEPT !.calls =
                       Append(@, [discogs_id |-> discogs_id, upstream |-> u,
                                  ret |-> r.ret, trace |-> r.trace,
                                  created_with |-> r.created_with])]
  /\ UNCHANGED <<traversal, api_client, rate_limiter, variants>>

NextResolve ==
  \E discogs_id \in ArtistIds, u \in Upstream : GetOrCreateArtist(discogs_id, u)

SpecResolve == InitResolve /\ [][NextResolve]_vars


\* ------------------------------------------------------------------------
\* SpecRetry: a DiscogsAPIClient asked for artists and releases, the
\* underlying client behaving in any way at each attempt
\* ------------------------------------------------------------------------
InitRetry ==
  /\ IdleTraversal
  /\ IdleVariants
  /\ artist_processor = NoArtists
  /\ rate_limiter = NoLimiter
  /\ \E retry_config \in RetryConfig, interval \in 1..MaxInterval :
       api_client = DiscogsAPIClient(retry_config, interval)

\* fetch_artist_by_discogs_id, get_artist or get_release, `idle` seconds
\* after the last thing the client did
Request(idle, outcomes, d) ==
  /\ Len(api_client.requests) < MaxRequests
  /\ api_client' = execute_with_retry([api_client EXCEPT !.time = @ + idle],
                                      outcomes, d)
  /\ UNCHANGED <<traversal, artist_processor, rate_limiter, variants>>

NextRetry ==
  \E idle \in {0, MaxInterval}, outcomes \in [1..MaxAttempts -> Outcomes],
     d \in 0..MaxCallTime :
    Request(idle, outcomes, d)

SpecRetry == InitRetry /\ [][NextRetry]_vars


\* ------------------------------------------------------------------------
\* SpecGate: the tasks of one event loop calling RateLimiter.wait_if_needed
\* of the concurrent variant, in any interleaving; a task runs from one
\* await to the next without interruption
\* ------------------------------------------------------------------------
InitGate ==
  /\ IdleTraversal
  /\ IdleVariants
  /\ artist_processor = NoArtists
  /\ api_client = NoClient
  /\ \E min_interval \in 1..MaxInterval : rate_limiter = RateLimiter(min_interval)

\* a task calls wait_if_needed: it takes the lock when the lock is free and
\* nobody waits for it, and waits for it otherwise
WaitIfNeeded(t) ==
  /\ rate_limiter.task[t].pc = "idle"
  /\ Len(rate_limiter.left) +
       Cardinality({u \in Tasks : rate_limiter.task[u].pc # "idle"}) < MaxPasses
  /\ rate_limiter' =
       IF locked(rate_limiter) \/ rate_limiter.waiters # <<>>
       THEN [rate_limiter EXCEPT !.task[t].pc = "waiting",
                                 !.waiters = Append(@, t)]
       ELSE enter(rate_limiter, t)
  /\ UNCHANGED <<traversal, artist_processor, api_client, variants>>

\* the first waiter is given the lock that was released
Acquire(t) ==
  /\ rate_limiter.waiters # <<>>
  /\ Head(rate_limiter.waiters) = t
  /\ ~locked(rate_limiter)
  /\ rate_limiter' =
       enter([rate_limiter EXCEPT !.waiters = Tail(@)], t)
  /\ UNCHANGED <<traversal, artist_processor, api_client, variants>>

\* asyncio.sleep returns, not before the time asked for
Wake(t) ==
  /\ rate_limiter.task[t].pc = "sleeping"
  /\ rate_limiter.time >= rate_limiter.task[t].wake_at
  /\ rate_limiter' = leave(rate_limiter, t, rate_limiter.task[t].read)
  /\ UNCHANGED <<traversal, artist_processor, api_client, variants>>

\* a second passes
Tick ==
  /\ rate_limiter.time < MaxGateTime
  /\ rate_limiter' = [rate_limiter EXCEPT !.time = @ + 1]
  /\ UNCHANGED <<traversal, artist_processor, api_client, variants>>

NextGate ==
  \/ \E t \in Tasks : WaitIfNeeded(t)
  \/ \E t \in Tasks : Acquire(t)
  \/ \E t \in Tasks : Wake(t)
  \/ Tick

SpecGate == InitGate /\ [][NextGate]_vars


\* ------------------------------------------------------------------------
\* SpecFrontier: traverse with max_artists >= 1 and no time limit, the
\* releases of an artist coming in up to MaxFrontierPages pages, so that
\* the loop over the pages goes on after a page has failed
\* ------------------------------------------------------------------------
InitFrontier ==
  /\ pc = "init"
  /\ \E c \in TraversalConfig :
       /\ c.max_artists >= 1
       /\ c.time_limit_seconds = None
       /\ config = c
  /\ queue = SmartTraversalQueue(config.queue_strategy, config.max_queue_size)
  /\ statistics = TraversalStatistics(0)
  /\ stop_requested = FALSE
  /\ now = 0
  /\ queue_item = NoItem
  /\ proc = NoProc
  /\ last = NoCall
  /\ add_calls = 0
  /\ popped = <<>>
  /\ hist = NoHist
  /\ catalog = NoCatalog
  /\ release_cache = NoCache
  /\ extracted = NoExtraction
  /\ IdleServices
  /\ IdleVariants

NextFrontier ==
  \/ Next
  \/ \E pages \in 1..MaxFrontierPages : FetchReleases(pages)

SpecFrontier == InitFrontier /\ [][NextFrontier]_vars


\* ------------------------------------------------------------------------
\* SpecReturns: traverse as a running thread over releases of up to
\* MaxFrontierPages pages, every call it makes returning: it takes its next
\* step whenever it has one
\* ------------------------------------------------------------------------
SpecReturns == InitStop /\ [][NextFrontier]_vars /\ WF_vars(NextFrontier)


\* ------------------------------------------------------------------------
\* SpecTraverser: Traverser.begin_traverse and traverse_loop over any graph
\* of collaborators, any resolution failing
\* ------------------------------------------------------------------------
InitTraverser ==
  /\ IdleTraversal
  /\ IdleServices
  /\ async_traverser = NoAsyncTraverser
  /\ bulk_traverser = NoBulkTraverser
  /\ async_connector = NoAsyncCall
  /\ database = NoDatabase
  /\ \E max_artists \in 0..MaxArtists : traverser = Traverser(1, max_artists)

\* the sets check_artist_releases can return for an artist: the artist
\* itself is left out by _should_process_artist
Collaborators(artist_id) == SUBSET (Ids \ {artist_id})

\* begin_traverse(): the first artist is resolved and its releases looked
\* at, or it is not found
BeginTraverse(artist, new_artists) ==
  /\ traverser.pc = "new"
  /\ traverser' =
       IF artist
       THEN [traverser EXCEPT !.pc = "loop",
                              !.checked = @ \cup {traverser.discogs_id},
                              !.artists = @ \cup new_artists,
                              !.resolved = Append(@, traverser.discogs_id)]
       ELSE [traverser EXCEPT !.pc = "done"]
  /\ UNCHANGED <<traversal, services, async_traverser, bulk_traverser, async_connector, database>>

\* one pass of the while loop of traverse_loop
TraverseLoopStep(artist_id, artist, new_artists) ==
  /\ traverser.pc = "loop"
  /\ traverser.artists # {}
  /\ traverser.count < traverser.max_artists
  /\ artist_id \in traverser.artists
  /\ traverser' = traverse_loop_step(traverser, artist_id, artist, new_artists)
  /\ UNCHANGED <<traversal, services, async_traverser, bulk_traverser, async_connector, database>>

\* the while condition is false: traverse_loop returns
TraverseLoopEnd ==
  /\ traverser.pc = "loop"
  /\ ~(traverser.artists # {} /\ traverser.count < traverser.max_artists)
  /\ traverser' = [traverser EXCEPT !.pc = "done"]
  /\ UNCHANGED <<traversal, services, async_traverser, bulk_traverser, async_connector, database>>

NextTraverser ==
  \/ \E artist \in BOOLEAN, new_artists \in Collaborators(traverser.discogs_id) :
       BeginTraverse(artist, new_artists)
  \/ \E artist_id \in Ids, artist \in BOOLEAN :
       \E new_artists \in Collaborators(artist_id) :
         TraverseLoopStep(artist_id, artist, new_artists)
  \/ TraverseLoopEnd

SpecTraverser == InitTraverser /\ [][NextTraverser]_vars


\* ------------------------------------------------------------------------
\* Properties
\* ------------------------------------------------------------------------
Pending(q, id) == \E i \in 1..Len(q._queue) : q._queue[i].discogs_id = id

NoDuplicates(seq) ==
  \A i, j \in 1..Len(seq) : i # j => seq[i] # seq[j]

Returned == pc = "done"

\* a limit is configured when it is set to a value other than None and 0
Configured(x) == x # None /\ x > 0

MaxArtistsReached == statistics.artists_processed >= config.max_artists

QueueEmpty == Len(queue._queue) = 0

\* the time limit is exceeded when time.time() returns t
TimeLimitExceeded(t) ==
  /\ Configured(config.time_limit_seconds)
  /\ 2 * (t - statistics.start_time) > config.time_limit_seconds

ErrorThresholdExceeded ==
  /\ Configured(config.error_threshold)
  /\ statistics.errors >= config.error_threshold

\* C1: in every state of traverse, with any max_artists >= 0, any graph and
\* any pattern of failures, artists_processed never exceeds max_artists.
C1_ProcessedWithinMax ==
  statistics.artists_processed <= config.max_artists

\* traverse returned with exactly max_artists processed although the queue
\* handed out more ids than that (a resolution failed on the way)
C1_Witness ==
  /\ Returned
  /\ config.max_artists = MaxArtists
  /\ statistics.artists_processed = MaxArtists
  /\ Cardinality(queue.processed) > MaxArtists

\* C2: in the fan-out scenario (N >= 1, no other limit, every artist
\* resolves and exposes FanOut unseen collaborators) the run ends with
\* artists_processed = N and the max-artists reason.
C2_FanOutEndsAtMax ==
  pc \in {"done", "crashed"} =>
    /\ pc = "done"
    /\ statistics.artists_processed = config.max_artists
    /\ statistics.termination_reason = MAX_ARTISTS_REACHED

\* C3: under any sequence of add and get_next calls, processed is a subset
\* of seen, |processed| <= |seen| <= number of add calls, and get_next never
\* returns the same id twice.
C3_SeenSetMonotone ==
  /\ queue.processed \subseteq queue.seen
  /\ Cardinality(queue.processed) <= Cardinality(queue.seen)
  /\ Cardinality(queue.seen) <= add_calls
  /\ NoDuplicates(popped)

\* C4: whenever traverse returns, termination_reason is one of the five
\* reasons and the condition it names holds.
C4_ReasonNamesCondition ==
  Returned =>
    LET r == statistics.termination_reason IN
    \/ r = MAX_ARTISTS_REACHED /\ MaxArtistsReached
    \/ r = QUEUE_EMPTY /\ QueueEmpty
    \/ r = TIME_LIMIT_EXCEEDED /\ TimeLimitExceeded(statistics.end_time)
    \/ r = ERROR_THRESHOLD_EXCEEDED /\ ErrorThresholdExceeded
    \/ r = MANUAL_STOP /\ stop_requested

\* an error-driven return: the threshold ended a run that had work left
C4_Witness ==
  /\ Returned
  /\ statistics.termination_reason = ERROR_THRESHOLD_EXCEEDED
  /\ ~MaxArtistsReached
  /\ ~QueueEmpty

\* C5: a run that returns with the queue empty and fewer than max_artists
\* processed, without the error threshold having been reached, reports the
\* queue-empty reason (whatever the time limit and the stop flag).
C5_QueueEmptyReason ==
  (Returned /\ QueueEmpty /\ ~MaxArtistsReached /\ ~ErrorThresholdExceeded)
    => statistics.termination_reason = QUEUE_EMPTY

C5_Witness ==
  /\ Returned
  /\ QueueEmpty
  /\ statistics.artists_processed >= 1
  /\ statistics.artists_processed < config.max_artists
  /\ statistics.termination_reason = QUEUE_EMPTY

\* C6: should_terminate returns the first condition that holds in the order
\* max-artists, queue-empty, time-limit, error-threshold, NoReason when none
\* holds, and leaves the queue, the statistics and the configuration as
\* they were.
C6_FirstTrueCondition ==
  [][last'.op = "should_terminate" =>
       /\ last'.ret =
            IF MaxArtistsReached THEN MAX_ARTISTS_REACHED
            ELSE IF QueueEmpty THEN QUEUE_EMPTY
            ELSE IF TimeLimitExceeded(now') THEN TIME_LIMIT_EXCEEDED
            ELSE IF ErrorThresholdExceeded THEN ERROR_THRESHOLD_EXCEEDED
            ELSE NoReason
       /\ UNCHANGED <<queue, statistics, config>>]_vars

\* the last condition of the order is returned past a configured time limit
\* that is not exceeded
C6_Witness ==
  /\ last.op = "should_terminate"
  /\ last.ret = ERROR_THRESHOLD_EXCEEDED
  /\ Configured(config.time_limit_seconds)
  /\ ~QueueEmpty

\* C7: an exception that reaches the except clause of traverse adds exactly
\* one to statistics.errors; the run ends there only if the configured
\* threshold is thereby reached, and otherwise goes on to the next
\* iteration of the loop.
C7_ExceptionCaught ==
  [][/\ (pc = "except" /\ pc' # "except") =>
          /\ statistics'.errors = statistics.errors + 1
          /\ IF Configured(config.error_threshold)
                /\ statistics'.errors >= config.error_threshold
             THEN pc' = "done"
                  /\ statistics'.termination_reason = ERROR_THRESHOLD_EXCEEDED
             ELSE pc' = "log"
     /\ (pc = "log" /\ pc' # "log") => pc' = "loop"]_vars

\* the first artist raised, the error was counted and the run goes on below
\* a configured threshold
C7_Witness ==
  /\ pc = "log"
  /\ statistics.errors = 1
  /\ statistics.artists_processed = 0
  /\ config.error_threshold = 2

\* C8: when get_or_create_artist yields None the failure adds one to
\* TraversalStatistics.errors, the id is not expanded and the traversal
\* goes on to the next iteration.
C8_ResolutionFailureCounted ==
  [][(pc = "resolve" /\ pc' = "log") =>
       /\ statistics'.errors = statistics.errors + 1
       /\ queue' = queue
       /\ statistics'.artists_processed = statistics.artists_processed]_vars

\* C9: once statistics.errors has reached a positive error_threshold no
\* further item is popped, the loop top leads to the return only, and the
\* reason returned is error-threshold-exceeded unless a condition of higher
\* priority holds.
C9_ThresholdStopsRun ==
  [][/\ ErrorThresholdExceeded =>
          /\ pc' \notin {"resolve", "crashed"}
          /\ queue'.processed = queue.processed
          /\ pc = "loop" => pc' \in {"loop", "done"}
     /\ (ErrorThresholdExceeded' /\ pc # "done" /\ pc' = "done") =>
          LET r == statistics'.termination_reason IN
          \/ r = ERROR_THRESHOLD_EXCEEDED
          \/ r = MAX_ARTISTS_REACHED /\ MaxArtistsReached'
          \/ r = QUEUE_EMPTY /\ QueueEmpty'
          \/ /\ r = TIME_LIMIT_EXCEEDED
             /\ Configured(config'.time_limit_seconds)
             /\ 2 * (statistics'.end_time - statistics'.start_time)
                  > config'.time_limit_seconds]_vars

\* the threshold ended the run at a loop top, through should_terminate,
\* with items left unpopped
C9_Witness ==
  /\ Returned
  /\ ErrorThresholdExceeded
  /\ statistics.termination_reason = ERROR_THRESHOLD_EXCEEDED
  /\ ~QueueEmpty
  /\ queue_item = NoItem

\* C10: add returns False and changes nothing when the id is in seen or a
\* configured max size is reached; in every other case it returns True and
\* the id is in seen and pending afterwards.
C10_AddFrame ==
  [][(last'.op = "add" /\ add_calls' = add_calls + 1) =>
       LET item == last'.item IN
       IF \/ item.discogs_id \in queue.seen
          \/ Configured(queue.max_size) /\ Len(queue._queue) >= queue.max_size
       THEN /\ last'.ret = "False"
            /\ queue' = queue
       ELSE /\ last'.ret = "True"
            /\ item.discogs_id \in queue'.seen
            /\ Pending(queue', item.discogs_id)]_vars

C12_CanAcceptMore ==
  [][last'.op = "can_accept_more" =>
       LET pending == Len(queue._queue)
           remaining == config.max_artists - statistics.artists_processed - pending
       IN  proc'.capacity =
             IF config.max_queue_size = None THEN Max(0, remaining)
             ELSE Max(0, Min(remaining, config.max_queue_size - pending))]_vars

\* C13: with the BFS strategy and the seed at depth 0 the depths of
\* successive pops never decrease: every id popped earlier was tagged with
\* a depth no greater than that of the item popped now.
C13_BfsDepthOrder ==
  [][(config.queue_strategy = "bfs" /\ pc = "loop" /\ pc' = "resolve") =>
       \A id \in queue.processed :
          queue.depth_map[id] <= queue_item'.depth]_vars

\* an item of depth 1 is popped while an item of depth 2, queued behind it
\* by the first item of depth 1, stays pending
C13_Witness ==
  /\ config.queue_strategy = "bfs"
  /\ pc = "resolve"
  /\ queue_item.depth = 1
  /\ Len(queue._queue) >= 1
  /\ queue._queue[1].depth = 2

\* C14: with the PRIORITY strategy get_next returns a pending item of
\* maximal priority and, among those, of earliest discovery time, whatever
\* items are pending, and neither add nor get_next fails.
C14_PriorityOrder ==
  [][queue.strategy = "priority" =>
       /\ last'.op \in {"add", "get_next"} => last'.ret # "TypeError"
       /\ (last'.op = "get_next" /\ Len(queue._queue) > 0) =>
            /\ last'.ret = "item"
            /\ \E i \in 1..Len(queue._queue) : queue._queue[i] = last'.item
            /\ \A i \in 1..Len(queue._queue) :
                 LET y == queue._queue[i] IN
                 \/ last'.item.priority > y.priority
                 \/ /\ last'.item.priority = y.priority
                    /\ last'.item.discovery_time <= y.discovery_time]_vars

\* C15: with max_depth set to any integer >= 0, an artist popped at depth >=
\* max_depth is resolved and counted but none of its collaborators is
\* offered to the queue, so that no item of depth > max_depth is ever
\* admitted.
C15_DepthLimit ==
  [][config.max_depth # None =>
       /\ (pc = "fetch" /\ queue_item.depth >= config.max_depth) =>
            /\ pc' # "releases"
            /\ queue' = queue
            /\ queue_item.discogs_id \in
                 {statistics.processed_artist_ids[i] :
                    i \in 1..Len(statistics.processed_artist_ids)}
       /\ \A id \in Ids : queue'.depth_map[id] <= config.max_depth]_vars

\* C16: stop() called at any point of traverse changes nothing but the
\* flag, so the artist in hand is processed to the end; once the flag is
\* set no item is popped at an iteration boundary, the run returns only
\* from the loop top or the except clause, with a reason recorded, and it
\* does return.
C16_StopTakesEffect ==
  /\ [][/\ (~stop_requested /\ stop_requested') =>
             UNCHANGED <<pc, queue, statistics, queue_item, proc>>
        /\ stop_requested =>
             /\ queue'.processed = queue.processed
             /\ pc' \notin {"crashed"}
             /\ pc = "loop" => pc' \in {"loop", "done"}
             /\ (pc # "done" /\ pc' = "done") =>
                  /\ pc \in {"loop", "except"}
                  /\ statistics'.termination_reason \in TerminationReason]_vars
  /\ (stop_requested ~> pc = "done")

\* stop() ended a run that had processed artists and had items left
C16_Witness ==
  /\ Returned
  /\ stop_requested
  /\ statistics.termination_reason = MANUAL_STOP
  /\ statistics.artists_processed >= 1
  /\ ~QueueEmpty

\* the ids credited in a list of credits
CreditedIds(credited) == {credited[i].id : i \in 1..Len(credited)}


\* the release of the last call of extract_artists_from_release
ExtractedRelease == catalog[extracted.release_id]

\* C18: for every release and every flag setting the set returned by
\* extract_artists_from_release contains neither current_artist_id nor the
\* id of a credited artist named "Various", in whichever list it is
\* credited.
C18_NoSelfNoVarious ==
  extracted.op = "extract" =>
    LET release == ExtractedRelease
        credited == release.artists \o release.extraartists
                      \o release.tracklist \o release.credits
    IN  /\ extracted.current_artist_id \notin Range(extracted.ret)
        /\ \A i \in 1..Len(credited) :
             credited[i].name = "Various" =>
               credited[i].id \notin Range(extracted.ret)

C20_FlagsSelectCategories ==
  (extracted.op = "extract" /\ ~extracted.cached) =>
    LET release == ExtractedRelease IN
    Range(extracted.ret) =
      (CreditedIds(release.artists)
       \cup (IF extracted.include_extras
             THEN CreditedIds(release.extraartists) ELSE {})
       \cup (IF extracted.include_credits
             THEN CreditedIds(release.tracklist) \cup CreditedIds(release.credits)
             ELSE {}))
      \ {extracted.current_artist_id}

\* an id credited only as extra artist is left out with include_extras off
\* while an id credited only at release level is returned
C20_Witness ==
  /\ extracted.op = "extract"
  /\ ~extracted.cached
  /\ ~extracted.include_extras
  /\ extracted.include_credits
  /\ \E id \in CreditedIds(ExtractedRelease.extraartists) :
       id \notin Range(extracted.ret)
  /\ \E id \in CreditedIds(ExtractedRelease.credits) :
       /\ id \notin CreditedIds(ExtractedRelease.artists)
       /\ id \in Range(extracted.ret)

\* C17: in the run from artist 1 whose one release credits 1, 2 and
\* "Various", no item for "Various" and no child item for 1 is ever admitted
\* to the queue, 2 is queued at depth 1 only, and traverse returns with two
\* artists processed and the queue-empty reason.
C17_EndToEnd ==
  /\ 3 \notin queue.seen
  /\ \A i \in 1..Len(queue._queue) :
       /\ queue._queue[i].discogs_id # 3
       /\ queue._queue[i].discogs_id = 1 => queue._queue[i].depth = 0
       /\ queue._queue[i].discogs_id = 2 => queue._queue[i].depth = 1
  /\ Returned =>
       /\ statistics.artists_processed = 2
       /\ statistics.termination_reason = QUEUE_EMPTY

\* the references of a credit list that are well formed, and those that are not
WellFormed(credited) ==
  SelectSeq(credited, LAMBDA a : a.id \notin {None, RaisesOnAccess})

Malformed(credited) ==
  SelectSeq(credited, LAMBDA a : a.id \in {None, RaisesOnAccess})

\* C21: on a release not extracted before, every well-formed reference of
\* the categories read is returned (less the current artist) whatever
\* malformed references stand before or after it, and every malformed
\* reference of those categories is counted as one error.
C21_MalformedSkippedAndCounted ==
  (extracted.op = "extract" /\ ~extracted.cached) =>
    LET release == ExtractedRelease
        read == release.artists
                  \o (IF extracted.include_extras THEN release.extraartists ELSE <<>>)
                  \o (IF extracted.include_credits
                      THEN release.tracklist \o release.credits ELSE <<>>)
    IN  /\ Range(extracted.ret) =
             CreditedIds(WellFormed(read)) \ {extracted.current_artist_id}
        /\ extracted.errors = Len(Malformed(read))

\* the number of upstream fetch requests a call made
FetchRequests(call) ==
  Cardinality({i \in 1..Len(call.trace) : call.trace[i].op = "fetch"})

\* C22: two calls of get_or_create_artist for the same id, the database
\* answering both, return the same result and make at most one upstream
\* fetch request between them.
C22_ResolveOncePerRun ==
  \A i \in 1..Len(artist_processor.calls), j \in 1..Len(artist_processor.calls) :
    (/\ i < j
     /\ artist_processor.calls[i].discogs_id = artist_processor.calls[j].discogs_id
     /\ artist_processor.calls[i].ret # "raises"
     /\ artist_processor.calls[j].ret # "raises") =>
      /\ artist_processor.calls[i].ret = artist_processor.calls[j].ret
      /\ FetchRequests(artist_processor.calls[i]) + FetchRequests(artist_processor.calls[j]) <= 1

\* the pages a call requested, in the order of the requests
PagesRequested(call) ==
  LET pages == SelectSeq(call.trace, LAMBDA e : e.op = "page")
  IN  [i \in 1..Len(pages) |-> pages[i].page]

CreateCalls(call) ==
  {i \in 1..Len(call.trace) : call.trace[i].op = "create"}

Attempts(request) == SelectSeq(request.trace, LAMBDA e : e.op = "call")

Sleeps(request) ==
  LET sleeps == SelectSeq(request.trace, LAMBDA e : e.op = "sleep")
  IN  [i \in 1..Len(sleeps) |-> sleeps[i].value]

\* what the attempts of a request did
Made(request) ==
  LET calls == Attempts(request) IN [i \in 1..Len(calls) |-> calls[i].outcome]

RECURSIVE Pow(_, _)
Pow(b, k) == IF k = 0 THEN 1 ELSE b * Pow(b, k - 1)

\* C24: a request whose attempts all fail with HTTP 429 makes max_attempts
\* attempts, sleeps min(initial_backoff * backoff_multiplier^k, max_backoff)
\* after attempt k = 0, 1, ... but the last, and raises RateLimitError; a
\* request with an attempt that succeeds returns its result and that
\* attempt is its last.
C24_RetryOn429 ==
  \A n \in 1..Len(api_client.requests) :
    LET request == api_client.requests[n]
        cfg == api_client.retry_config
    IN  /\ (cfg.max_attempts >= 1 /\ Range(Made(request)) = {"429"}) =>
             /\ Len(Attempts(request)) = cfg.max_attempts
             /\ Sleeps(request) =
                  [i \in 1..(cfg.max_attempts - 1) |->
                     Min(cfg.initial_backoff * Pow(cfg.backoff_multiplier, i - 1),
                         cfg.max_backoff)]
             /\ request.ret = "RateLimitError"
        /\ "ok" \in Range(Made(request)) =>
             /\ request.ret = "result"
             /\ Made(request)[Len(Made(request))] = "ok"
             /\ request.trace[Len(request.trace)].op = "call"

\* C25: an attempt failing with a 4xx status other than 429 ends the
\* request with APIError: no sleep and no attempt follows it, and when it
\* is the first attempt the request made one attempt and slept not at all.
C25_PermanentErrorNotRetried ==
  \A n \in 1..Len(api_client.requests) :
    LET request == api_client.requests[n] IN
    \A i \in 1..Len(request.trace) :
      request.trace[i].outcome = "4xx" =>
        /\ request.ret = "APIError"
        /\ i = Len(request.trace)
        /\ request.trace[i].value = 0 =>
             Len(Attempts(request)) = 1 /\ Sleeps(request) = <<>>

\* a first attempt failed with a 4xx status while attempts were left
C25_Witness ==
  /\ api_client.retry_config.max_attempts >= 2
  /\ \E n \in 1..Len(api_client.requests) :
       /\ Made(api_client.requests[n]) = <<"4xx">>
       /\ api_client.requests[n].ret = "APIError"

\* C26: a request whose attempts all fail with a 5xx status makes
\* max_attempts attempts with a backoff sleep between consecutive attempts
\* before it raises.
C26_ServerErrorRetried ==
  \A n \in 1..Len(api_client.requests) :
    LET request == api_client.requests[n]
        cfg == api_client.retry_config
    IN  (cfg.max_attempts >= 1 /\ Range(Made(request)) = {"5xx"}) =>
          /\ Len(Attempts(request)) = cfg.max_attempts
          /\ Len(Sleeps(request)) = cfg.max_attempts - 1
          /\ request.ret # "result"

\* every attempt of every request, in the order they were made
AllAttempts ==
  LET RECURSIVE Flat(_)
      Flat(k) == IF k = 0 THEN <<>>
                 ELSE Flat(k - 1) \o Attempts(api_client.requests[k])
  IN  Flat(Len(api_client.requests))

\* C27: every attempt comes directly after a pass of wait_if_needed, and
\* two consecutive attempts begin at least `interval` apart.
C27_GateBeforeEveryAttempt ==
  /\ \A n \in 1..Len(api_client.requests) :
       LET trace == api_client.requests[n].trace IN
       \A i \in 1..Len(trace) :
         trace[i].op = "call" => (i > 1 /\ trace[i - 1].op = "wait")
  /\ \A i \in 1..(Len(AllAttempts) - 1) :
       AllAttempts[i + 1].at - AllAttempts[i].at >= api_client.interval

\* C29: under every interleaving of tasks calling wait_if_needed of the
\* concurrent gate, any two callers leave the gate at least min_interval
\* apart, every caller has read the last_request stored by the caller that
\* left before it, no two callers have passed on the same reading, and at
\* most one task is between its reading and its leaving.
C29_ConcurrentGateSafe ==
  /\ \A i \in 1..Len(rate_limiter.left), j \in 1..Len(rate_limiter.left) :
       i < j =>
         /\ rate_limiter.left[j].at - rate_limiter.left[i].at
              >= rate_limiter.min_interval
         /\ rate_limiter.left[j].read # rate_limiter.left[i].read
  /\ \A j \in 2..Len(rate_limiter.left) :
       rate_limiter.left[j].read = rate_limiter.left[j - 1].at
  /\ Cardinality({t \in Tasks : rate_limiter.task[t].pc = "sleeping"}) <= 1

\* two callers have left the gate, a third sleeps in it and holds the lock
\* and another call waits for the lock
C29_Witness ==
  /\ Len(rate_limiter.left) >= 2
  /\ rate_limiter.left[1].task # rate_limiter.left[2].task
  /\ \E t \in Tasks : rate_limiter.task[t].pc = "sleeping"
  /\ \E t \in Tasks : rate_limiter.task[t].pc = "waiting"

\* the pending items of the frontier
PendingItems == Len(queue._queue)

\* C30: in traverse with max_artists >= 1, at every iteration boundary
\* artists_processed plus the number of pending queue items is at most
\* max_artists, so the frontier never holds more than max_artists items.
C30_FrontierBounded ==
  (pc = "loop" /\ config.max_artists >= 1) =>
    /\ statistics.artists_processed + PendingItems <= config.max_artists
    /\ PendingItems <= config.max_artists

\* C31: traverse always terminates: whatever the graph and the failures,
\* every call made returning, the loop reaches a termination condition and
\* traverse returns.
C31_TraverseReturns == <>(pc = "done")

\* C32: in one run of traverse the number of ids ever admitted to the queue,
\* the seed included, never exceeds max_artists.
C32_AdmittedWithinMax == queue.total_additions <= config.max_artists

\* C33: when traverse returns, artists_discovered is total_queue_additions
\* less the seed, processed_artist_ids has no duplicates and as many ids as
\* artists_processed; and no counter decreases during the run.
C33_AccountingConsistent ==
  /\ [](pc = "done" =>
          /\ statistics.artists_discovered = statistics.total_queue_additions - 1
          /\ NoDuplicates(statistics.processed_artist_ids)
          /\ Len(statistics.processed_artist_ids) = statistics.artists_processed)
  /\ [][/\ statistics'.artists_processed >= statistics.artists_processed
        /\ statistics'.artists_discovered >= statistics.artists_discovered
        /\ statistics'.errors >= statistics.errors
        /\ queue'.total_additions >= queue.total_additions]_vars

\* C34: in the synchronous Traverser the number of artists resolved and
\* expanded in one run, the seed included, never exceeds max_artists.
C34_TraverserWithinMax ==
  Len(traverser.resolved) <= traverser.max_artists

\* C35: in the synchronous Traverser an id that was popped and counted is
\* never popped and counted again in the same run, whether its resolution
\* succeeded or failed.
C35_PoppedOnce == NoDuplicates(traverser.counted)

\* ------------------------------------------------------------------------
\* SpecAsyncTraverser: AsyncTraverser.begin_traverse and traverse_loop
\* ------------------------------------------------------------------------
InitAsyncTraverser ==
  /\ IdleTraversal
  /\ IdleServices
  /\ traverser = NoTraverser
  /\ bulk_traverser = NoBulkTraverser
  /\ async_connector = NoAsyncCall
  /\ database = NoDatabase
  /\ \E max_artists \in 0..MaxArtists, concurrent_artists \in 1..MaxConcurrent :
       async_traverser = AsyncTraverser(1, max_artists, concurrent_artists)

\* begin_traverse(): the first artist is resolved and its collaborators
\* become the first frontier, or it is not found
AsyncBeginTraverse(result) ==
  /\ async_traverser.pc = "new"
  /\ async_traverser' =
       IF result.artist
       THEN [async_traverser EXCEPT
               !.pc = "loop",
               !.checked = @ \cup {async_traverser.discogs_id},
               !.artists = @ \cup result.new_ids]
       ELSE [async_traverser EXCEPT !.pc = "loop"]
  /\ UNCHANGED <<traversal, services, traverser, bulk_traverser, async_connector, database>>

\* one pass of the while loop of traverse_loop: a batch is popped,
\* processed concurrently and its results are counted
TraverseLoopBatch(popped_ids, results) ==
  /\ async_traverser.pc = "loop"
  /\ async_traverser.artists # {}
  /\ async_traverser.count < async_traverser.max_artists
  /\ popped_ids \subseteq async_traverser.artists
  /\ Cardinality(popped_ids) = batch_size(async_traverser)
  /\ async_traverser' = traverse_loop_batch(async_traverser, popped_ids, results)
  /\ UNCHANGED <<traversal, services, traverser, bulk_traverser, async_connector, database>>

\* the while condition is false: traverse_loop returns
AsyncTraverseLoopEnd ==
  /\ async_traverser.pc = "loop"
  /\ ~(async_traverser.artists # {}
         /\ async_traverser.count < async_traverser.max_artists)
  /\ async_traverser' = [async_traverser EXCEPT !.pc = "done"]
  /\ UNCHANGED <<traversal, services, traverser, bulk_traverser, async_connector, database>>

\* the results a batch can have: one per id of the batch
BatchResults(batch) ==
  {results \in [batch -> UNION {ProcessResults(a) : a \in batch}] :
     \A a \in batch : results[a] \in ProcessResults(a)}

NextAsyncTraverser ==
  \/ \E result \in ProcessResults(async_traverser.discogs_id) :
       AsyncBeginTraverse(result)
  \/ \E popped_ids \in SUBSET async_traverser.artists :
       \E results \in BatchResults(popped_ids \ async_traverser.checked) :
         TraverseLoopBatch(popped_ids, results)
  \/ AsyncTraverseLoopEnd

SpecAsyncTraverser == InitAsyncTraverser /\ [][NextAsyncTraverser]_vars

\* C36: in AsyncTraverser.traverse_loop every artist resolved in a batch,
\* also one without collaborators, raises count by exactly one, so the
\* number of artists the loop resolved equals count and never exceeds
\* max_artists
C36_BatchCountsResolved ==
  /\ Cardinality(async_traverser.resolved) = async_traverser.count
  /\ Cardinality(async_traverser.resolved) <= async_traverser.max_artists

\* ------------------------------------------------------------------------
\* SpecBulkTraverser: BulkTraverser.traverse
\* ------------------------------------------------------------------------
\* the databases a run can start with
BulkDatabases == {{}, {2}}

InitBulkTraverser ==
  /\ IdleTraversal
  /\ IdleServices
  /\ traverser = NoTraverser
  /\ async_traverser = NoAsyncTraverser
  /\ async_connector = NoAsyncCall
  /\ database = NoDatabase
  /\ \E db \in BulkDatabases, max_depth \in 0..MaxBulkDepth :
       bulk_traverser = BulkTraverser(1, db, max_depth)

\* line 67: the ids of a batch
batch_ids(entries) == {entries[i][1] : i \in 1..Len(entries)}

\* lines 59-67: the queue is not empty, a batch is taken from it and the
\* database is asked which of its artists exist; an empty batch ends the
\* loop, and then the pending data is saved (lines 89-90)
BulkGetBatch ==
  /\ bulk_traverser.pc = "loop"
  /\ bulk_traverser.queue # <<>>
  /\ LET got == get_batch_from_queue(bulk_traverser, <<>>, BulkBatchSize)
     IN  bulk_traverser' =
           IF got.batch = <<>>
           THEN [bulk_save(got) EXCEPT !.pc = "done"]
           ELSE [got EXCEPT !.pc = "batch",
                            !.existing = batch_ids(got.batch) \cap got.db]
  /\ UNCHANGED <<traversal, services, traverser, async_traverser, async_connector, database>>

\* one pass of the for loop of traverse() (lines 70-82), for the first
\* entry of the batch that is left; after the last entry the pending data
\* is saved when there is enough of it (lines 85-86)
BulkProcessEntry(result) ==
  /\ bulk_traverser.pc = "batch"
  /\ bulk_traverser.batch # <<>>
  /\ LET entry == Head(bulk_traverser.batch)
         after == process_batch_entry(bulk_traverser, entry[1], entry[2], result)
     IN  bulk_traverser' =
           IF after.batch # <<>>
           THEN after
           ELSE [(IF Cardinality(after.pending_artists) >= BulkSaveThreshold
                  THEN bulk_save(after) ELSE after)
                 EXCEPT !.pc = "loop", !.existing = {}]
  /\ UNCHANGED <<traversal, services, traverser, async_traverser, async_connector, database>>

\* lines 59 and 88-93: the queue is empty, the pending data is saved and
\* the stats are returned
BulkFinish ==
  /\ bulk_traverser.pc = "loop"
  /\ bulk_traverser.queue = <<>>
  /\ bulk_traverser' = [bulk_save(bulk_traverser) EXCEPT !.pc = "done"]
  /\ UNCHANGED <<traversal, services, traverser, async_traverser, async_connector, database>>

\* what the API or the database can give for artist_id: nothing, or an
\* artist with or without releases and the collaborators found on them,
\* in any iteration order
BulkResults(artist_id) ==
  {[artist |-> FALSE, releases |-> FALSE, collaborators |-> <<>>],
   [artist |-> TRUE, releases |-> FALSE, collaborators |-> <<>>],
   [artist |-> TRUE, releases |-> TRUE, collaborators |-> <<>>]}
    \cup UNION {{[artist |-> TRUE, releases |-> TRUE, collaborators |-> o] :
                   o \in {q \in [1..Cardinality(ids) -> ids] : Range(q) = ids}} :
                ids \in (SUBSET (Ids \ {artist_id})) \ {{}}}

NextBulkTraverser ==
  \/ BulkGetBatch
  \/ \E artist_id \in Ids : \E result \in BulkResults(artist_id) :
       /\ bulk_traverser.batch # <<>>
       /\ Head(bulk_traverser.batch)[1] = artist_id
       /\ BulkProcessEntry(result)
  \/ BulkFinish

SpecBulkTraverser == InitBulkTraverser /\ [][NextBulkTraverser]_vars

\* C37: in BulkTraverser.traverse no artist id is processed more than once
\* in a run: it is fetched at most once and stats['artists'] counts every
\* processed id once, also when an id was queued by several parents
C37_BulkProcessedOnce ==
  /\ NoDuplicates(bulk_traverser.fetched)
  /\ bulk_traverser.stats.artists = Cardinality(bulk_traverser.processed)

\* ------------------------------------------------------------------------
\* SpecAsyncRetry: calls of AsyncDiscoConnector._execute_with_retry
\* ------------------------------------------------------------------------
InitAsyncRetry ==
  /\ IdleTraversal
  /\ IdleServices
  /\ traverser = NoTraverser
  /\ async_traverser = NoAsyncTraverser
  /\ bulk_traverser = NoBulkTraverser
  /\ async_connector = NoAsyncCall
  /\ database = NoDatabase

\* fetch_artist_by_discogs_id, get_artist or get_release is called: a new
\* call of _execute_with_retry starts
ExecuteWithRetry(func) ==
  /\ async_connector.pc \in {"idle", "returned", "raised"}
  /\ async_connector' = AsyncCall("try", func)
  /\ UNCHANGED <<traversal, services, traverser, async_traverser, bulk_traverser, database>>

\* one attempt of the call in progress
ExecuteAttempt(outcome) ==
  /\ async_connector.pc = "try"
  /\ async_connector.attempt < MAX_RETRIES
  /\ async_connector' = execute_attempt(async_connector, outcome)
  /\ UNCHANGED <<traversal, services, traverser, async_traverser, bulk_traverser, database>>

NextAsyncRetry ==
  \/ \E func \in AsyncCalls : ExecuteWithRetry(func)
  \/ \E outcome \in AsyncOutcomes : ExecuteAttempt(outcome)

SpecAsyncRetry == InitAsyncRetry /\ [][NextAsyncRetry]_vars

\* every attempt of the finished call failed with HTTP 429 or a 5xx status
RetriesExhausted ==
  /\ async_connector.pc \in {"returned", "raised"}
  /\ async_connector.func = "fetch_artist_by_discogs_id"
  /\ Len(async_connector.made) = MAX_RETRIES
  /\ Range(async_connector.made) \subseteq {"429", "5xx"}

\* C38: when all MAX_RETRIES attempts of _execute_with_retry fail with a
\* retryable error (429 or 5xx), the caller gets an error, and not the
\* null result that means the artist does not exist
C38_ExhaustionIsError ==
  RetriesExhausted =>
    /\ async_connector.pc = "raised"
    /\ artist_lookup(async_connector) # "not found"

\* ------------------------------------------------------------------------
\* SpecCrud: calls of artist_crud.create_with_releases on one database
\* ------------------------------------------------------------------------
DbArtists == 1..NumDbArtists
DbReleases == 1..NumDbReleases

\* the ArtistCreate inputs of the calls
ArtistInputs ==
  [discogs_id : DbArtists, releases : SUBSET DbReleases]

InitCrud ==
  /\ IdleTraversal
  /\ IdleServices
  /\ traverser = NoTraverser
  /\ async_traverser = NoAsyncTraverser
  /\ bulk_traverser = NoBulkTraverser
  /\ async_connector = NoAsyncCall
  /\ database = NoDatabase

\* artist_crud.create_with_releases(db, artist_in) is called and returns
CreateWithReleases(artist_in) ==
  /\ database' =
       [tables |-> create_with_releases(database.tables, artist_in),
        last |-> [artist_in |-> artist_in, before |-> database.tables,
                  ret |-> artist_in.discogs_id],
        previous |-> database.last.artist_in]
  /\ UNCHANGED <<traversal, services, traverser, async_traverser,
                 bulk_traverser, async_connector>>

NextCrud == \E artist_in \in ArtistInputs : CreateWithReleases(artist_in)

SpecCrud == InitCrud /\ [][NextCrud]_vars

\* the releases linked to an artist in the artist_release table
linked_releases(tables, artist_id) ==
  {r \in tables.releases : <<artist_id, r>> \in tables.links}

\* C39: after create_with_releases(artist_in) returns, the stored artist
\* is linked to every release of artist_in.releases, also to those that
\* were in the database already; and a call that repeats the input of the
\* call before it changes nothing
C39_LinkedToAllReleases ==
  database.last.ret # None =>
    /\ database.last.artist_in.releases
         \subseteq linked_releases(database.tables,
                                   database.last.artist_in.discogs_id)
    /\ database.last.artist_in = database.previous =>
         database.tables = database.last.before

\* C40: the release cache is transparent: every call of
\* extract_artists_from_release returns the set a processor with an empty
\* cache returns for the same release, current artist and flags
C40_CacheTransparent ==
  extracted.op = "extract" =>
    Range(extracted.ret)
      = Range(extract_artists_from_release(
                NoCache, catalog[extracted.release_id],
                extracted.current_artist_id, extracted.include_extras,
                extracted.include_credits).ret)

====
